---- MODULE Spec2Model ----
(***************************************************************************)
(* A model of the vk-proxy tunnel engine: the datagram codec, the session, *)
(* the per-session handler priority queue, the session reaper and the      *)
(* inbound loopback filter.                                                *)
(*                                                                         *)
(* One process is modelled with one session.  The remote process is the    *)
(* stream of numbered datagrams it sends (`remote`); the carriers deliver  *)
(* them in any order, duplicated and delayed.  Each specification          *)
(* (SpecCodec, SpecTunnel, SpecSession, ...) drives the variables of the   *)
(* components it is about and leaves the others at their initial value.    *)
(***************************************************************************)
EXTENDS Integers, Sequences, FiniteSets, TLC

VARIABLES
    \* ---- datagram codec
    cpc,        \* position of the codec run: "off", "start", "frame", "encoded",
                \* "decoded"
    frame,      \* the bytes a text put on a carrier stands for
    dgIn,       \* the datagram handed to encodeDatagram
    encIn,      \* the alphabet handed to encodeDatagram
    encoded,    \* the string returned by encodeDatagram (a sequence of code points)
    decoded,    \* the result of decodeDatagram: [err |-> ..., dg |-> ...]
    \* ---- configuration and the remote side
    queueSize,  \* capacity of the two session queues
    timeout,    \* cfg.Session.Timeout() in ticks, 0 when not set
    remote,     \* remote[k]: the datagram numbered k the remote process sends
    peerChunks, \* the number of chunks the local peer sends into the tunnel
    unauthorized, \* cfg.API.Unathorized
    qrImageLevel, \* cfg.QR.ImageLevel: qrLevelLow .. qrLevelHighest
    forwardSize, \* cfg.Socks.ForwardSize
    \* ---- the session table and the session (struct session)
    sessions,   \* TRUE iff the session is in the table
    sesClosed,  \* session.closed
    sesPeer,    \* session.peer: "nil", "open" or "closed" (a closed socket)
    sesOnClose, \* TRUE iff channel session.onClose is closed
    sesWrites,  \* buffer of channel session.writes
    sesDatagrams, \* buffer of channel session.datagrams
    sesHistory, \* session.history: number -> fragment
    sesNumber,  \* session.number
    sesActivity, \* session.activity
    closer,     \* the goroutine between the two critical sections of close(), or "none"
    \* ---- the handler queue table and the queue (struct handlerPriorityQueue)
    queues,     \* TRUE iff the queue of the session is in handleDatagramQueues
    qClosed, qTemp, qData, qNext, qPending, qRetries,
    qSignal,    \* number of tokens in channel q.signal (capacity 1)
    lpc,        \* position of the goroutine running q.listen()
    \* ---- the SOCKS goroutine of the session, the peer socket, the carriers
    socks,      \* "none", "running", "failed", "closing", "done"
    localSent,  \* chunks the SOCKS goroutine has handed to sendDatagram
    peerLog,    \* the payloads the peer socket has accepted, in order
    carrier,    \* the fragments handed to the carriers: fragment -> copies
    \* ---- the SOCKS state machine of the session (handleSocks)
    stage,      \* the stage of readSocks: stageHandshake .. stageForward, 0 when
                \* it is not modelled
    sockIn,     \* the bytes the last Read of readSocks returned
    sockOut,    \* the replies readSocks has written to the local application
    addr,       \* the address of the request readSocks has parsed last
    readErr,    \* what readSocks returned, "running" until it returns
    fwdBuf,     \* fwdBuf.b: the bytes read in stageForward and not yet forwarded
    fwdErr,     \* what forwardsSocks returned, "running" until it returns
    fwdChunks,  \* handleStageForward: the chunks it has yet to hand to sendDatagram
    fwdStop,    \* forwardsSocks: the local variable stop of the turn under way
    fwdRead,    \* the bytes readSocks has written to fwdBuf, from the first on
    \* ---- the sending side of the session: plans and carrier calls
    posts,      \* session.posts: the clubs a post-id is known for
    planIn,     \* the datagram listenDatagrams has handed to createPlan last
    plan,       \* what createPlan returned for it: [methods, fragments, err]
    workers,    \* the carrier calls in flight: the goroutines of executePlan
    failed,     \* the fragments whose carrier call has failed
    returned,   \* returned[c]: the numbers nextNumber() has returned to caller c
    \* ---- the storage namespace of each of two processes
    stores,     \* stores[p]: storageNamespace, storageNamespaceChangedAt and
                \* storageNextKey of process p, what decided the namespace and
                \* the key written last
    \* ---- time, the reaper, the storage namespace
    now,        \* the clock, in ticks
    reaperAt,   \* the time the reaper wakes next, -1 when it is not modelled
    reaperGo,   \* TRUE iff a goroutine spawned by the reaper has yet to call close()
    storageNamespace, storageNamespaceChangedAt,
    \* ---- history variables
    received,   \* the updates handed over: how many, the carrier of the last one
                \* and whether it carried only datagrams of this process
    arrivals,   \* the numbers handed to handleDatagram, in order
    accepted,   \* the payloads writePeer has put on session.writes, in order
    expiries,   \* [num, count]: count consecutive timer expiries found num missing
    timerFires, \* the number of expiries of the retry timer
    lastCall,   \* the last call of a caller of the session, and what it returned
    \* ---- the connected signal of a session
    sigConn,    \* the number of close(s.sigConn) executed
    sigConnCl,  \* session.sigConnCl
    sigProcs,   \* sigProcs[g]: the call goroutine g is in or has made last
    \* ---- the two channels of a session and the goroutines that use them
    chanMu,     \* the goroutine that holds session.mu, 0 for none
    chanCloses, \* the number of close(s.writes) and of close(s.datagrams) executed
    chanPanics, \* the number of sends on a closed channel
    chanProcs   \* chanProcs[g]: the call goroutine g is in and its position

codecVars == <<cpc, frame, dgIn, encIn, encoded, decoded>>

cfgVars == <<queueSize, timeout, remote, peerChunks, unauthorized, qrImageLevel, forwardSize>>

planVars == <<posts, planIn, plan, workers, failed, returned, stores>>

sesVars ==
    <<sessions, sesClosed, sesPeer, sesOnClose, sesWrites, sesDatagrams, sesHistory,
      sesNumber, sesActivity, closer>>

queueVars == <<queues, qClosed, qTemp, qData, qNext, qPending, qRetries, qSignal, lpc>>

envVars == <<socks, localSent, peerLog, carrier>>

socksVars ==
    <<stage, sockIn, sockOut, addr, readErr, fwdBuf, fwdErr, fwdChunks, fwdStop, fwdRead>>

timeVars == <<now, reaperAt, reaperGo>>

storageVars == <<storageNamespace, storageNamespaceChangedAt>>

histVars == <<received, arrivals, accepted, expiries, timerFires>>

sigVars == <<sigConn, sigConnCl, sigProcs>>

chanVars == <<chanMu, chanCloses, chanPanics, chanProcs>>

vars ==
    <<codecVars, socksVars, cfgVars, planVars, sesVars, queueVars, envVars, timeVars,
      storageVars, histVars, sigVars, chanVars,
      lastCall>>

(***************************************************************************)
(* Bounds of the codec runs                                                *)
(***************************************************************************)
\* the payloads of the codec runs are made of at most this many 4-byte groups
MaxPayloadGroups == 3

(***************************************************************************)
(* Bytes and 32-bit words.  TLC's integers are 32-bit signed, so a uint32  *)
(* is kept as its four big-endian bytes.                                   *)
(***************************************************************************)
Byte == 0..255

RECURSIVE XorBits(_, _, _)
XorBits(a, b, n) ==
    IF n = 0 THEN 0
    ELSE ((a + b) % 2) + 2 * XorBits(a \div 2, b \div 2, n - 1)

xorTable == [a \in Byte |-> [b \in Byte |-> XorBits(a, b, 8)]]

Xor8(a, b) == xorTable[a][b]

XorW(x, y) == <<Xor8(x[1], y[1]), Xor8(x[2], y[2]), Xor8(x[3], y[3]), Xor8(x[4], y[4])>>

Shr1(w) ==
    << w[1] \div 2,
       (w[2] \div 2) + 128 * (w[1] % 2),
       (w[3] \div 2) + 128 * (w[2] % 2),
       (w[4] \div 2) + 128 * (w[3] % 2) >>

\* big-endian bytes of a non-negative number n in w bytes
RECURSIVE BigEndian(_, _)
BigEndian(n, w) ==
    IF w = 0 THEN <<>> ELSE Append(BigEndian(n \div 256, w - 1), n % 256)

\* the number held by big-endian bytes
RECURSIVE FromBigEndian(_)
FromBigEndian(b) ==
    IF Len(b) = 0 THEN 0
    ELSE 256 * FromBigEndian(SubSeq(b, 1, Len(b) - 1)) + b[Len(b)]

ZeroWord == <<0, 0, 0, 0>>

(***************************************************************************)
(* hash/crc32, IEEE polynomial (reflected, 0xEDB88320)                     *)
(***************************************************************************)
crcPoly == <<237, 184, 131, 32>>

RECURSIVE crcShift(_, _)
crcShift(w, k) ==
    IF k = 0 THEN w
    ELSE crcShift(IF w[4] % 2 = 1 THEN XorW(crcPoly, Shr1(w)) ELSE Shr1(w), k - 1)

crcTable == [i \in Byte |-> crcShift(<<0, 0, 0, i>>, 8)]

crcUpdate(c, b) ==
    LET t == crcTable[Xor8(c[4], b)]
    IN  <<t[1], Xor8(t[2], c[1]), Xor8(t[3], c[2]), Xor8(t[4], c[3])>>

\* the bytes of data folded into the running value, from 0xFFFFFFFF, and
\* inverted at the end.  The range is halved and the running value is a
\* function argument, so that the evaluation stays shallow.
ChecksumIEEE(data) ==
    LET fold[c \in Seq(Byte), lo \in Nat, hi \in Nat] ==
            IF lo > hi THEN c
            ELSE IF lo = hi THEN crcUpdate(c, data[lo])
            ELSE fold[fold[c, lo, (lo + hi) \div 2], (lo + hi) \div 2 + 1, hi]
    IN  XorW(fold[<<255, 255, 255, 255>>, 1, Len(data)], <<255, 255, 255, 255>>)

(***************************************************************************)
(* encoding/ascii85                                                        *)
(***************************************************************************)
\* quotient and remainder of a 32-bit word divided by 85 (long division)
Div85(w) ==
    LET q1 == w[1] \div 85
        r1 == w[1] % 85
        c2 == r1 * 256 + w[2]
        q2 == c2 \div 85
        r2 == c2 % 85
        c3 == r2 * 256 + w[3]
        q3 == c3 \div 85
        r3 == c3 % 85
        c4 == r3 * 256 + w[4]
    IN  [q |-> <<q1, q2, q3, c4 \div 85>>, r |-> c4 % 85]

\* the k low base-85 digits of w as characters, most significant first
RECURSIVE Digits85(_, _)
Digits85(w, k) ==
    IF k = 0 THEN <<>>
    ELSE Append(Digits85(Div85(w).q, k - 1), 33 + Div85(w).r)

\* v*85 + d in uint32 arithmetic (the carry out of the top byte is lost)
MulAdd85(w, d) ==
    LET t4 == w[4] * 85 + d
        t3 == w[3] * 85 + (t4 \div 256)
        t2 == w[2] * 85 + (t3 \div 256)
        t1 == w[1] * 85 + (t2 \div 256)
    IN  <<t1 % 256, t2 % 256, t3 % 256, t4 % 256>>

\* ascii85.Encode, one group: 4 bytes -> 5 characters, an all-zero group ->
\* "z", a final group of n < 4 bytes -> n+1 characters
ascii85EncodeGroup(src, k) ==
    LET first == 4 * (k - 1) + 1
        n == IF Len(src) - first + 1 >= 4 THEN 4 ELSE Len(src) - first + 1
        w == [i \in 1..4 |-> IF i <= n THEN src[first + i - 1] ELSE 0]
    IN  IF n = 4 /\ w = ZeroWord THEN <<122>>
        ELSE SubSeq(Digits85(w, 5), 1, n + 1)

RECURSIVE ascii85EncodeRange(_, _, _)
ascii85EncodeRange(src, lo, hi) ==
    IF lo > hi THEN <<>>
    ELSE IF lo = hi THEN ascii85EncodeGroup(src, lo)
    ELSE LET mid == (lo + hi) \div 2
         IN  ascii85EncodeRange(src, lo, mid) \o ascii85EncodeRange(src, mid + 1, hi)

ascii85Encode(src) == ascii85EncodeRange(src, 1, (Len(src) + 3) \div 4)

\* the flush of a final short group of nb characters
RECURSIVE ascii85Pad(_, _)
ascii85Pad(v, nb) == IF nb >= 5 THEN v ELSE ascii85Pad(MulAdd85(v, 84), nb + 1)

\* ascii85.Decode, one pass of its loop over the character b, with
\* len(dst) = dstLen: the loop returns, without an error, as soon as fewer
\* than 4 bytes of dst are free
ascii85Step(st, b, dstLen) ==
    IF st.state # "run" THEN st
    ELSE IF dstLen - Len(st.out) < 4 THEN [st EXCEPT !.state = "full"]
    ELSE IF b <= 32 THEN st
    ELSE IF b = 122 /\ st.nb = 0
         THEN [st EXCEPT !.out = st.out \o ZeroWord]
    ELSE IF 33 <= b /\ b <= 117
         THEN LET v2 == MulAdd85(st.v, b - 33)
              IN  IF st.nb + 1 = 5
                  THEN [st EXCEPT !.out = st.out \o v2, !.v = ZeroWord, !.nb = 0]
                  ELSE [st EXCEPT !.v = v2, !.nb = st.nb + 1]
    ELSE [st EXCEPT !.state = "corrupt"]

ascii85States ==
    [out : Seq(Byte), v : Seq(Byte), nb : 0..4, state : {"run", "full", "corrupt"}]

\* ascii85.Decode(dst, src, flush = true) with len(dst) = dstLen
ascii85Decode(src, dstLen) ==
    LET loop[st \in ascii85States, lo \in Nat, hi \in Nat] ==
            IF lo > hi THEN st
            ELSE IF lo = hi THEN ascii85Step(st, src[lo], dstLen)
            ELSE loop[loop[st, lo, (lo + hi) \div 2], (lo + hi) \div 2 + 1, hi]
        st == loop[[out |-> <<>>, v |-> ZeroWord, nb |-> 0, state |-> "run"],
                   1, Len(src)]
    IN  IF st.state = "corrupt" THEN [out |-> <<>>, err |-> "corrupt"]
        ELSE IF st.state = "full" THEN [out |-> st.out, err |-> "nil"]
        ELSE IF st.nb = 0 THEN [out |-> st.out, err |-> "nil"]
        ELSE IF st.nb = 1 THEN [out |-> <<>>, err |-> "corrupt"]
        ELSE [out |-> st.out \o SubSeq(ascii85Pad(st.v, st.nb), 1, st.nb - 1),
              err |-> "nil"]

(***************************************************************************)
(* The datagram codec                                                      *)
(***************************************************************************)
datagramHeaderLen == 24

commandConnect == 1
commandForward == 2
commandClose == 3
commandRetry == 4

\* a command code that is none of the four
commandUnknown == 9

datagramEncodingASCII == 1
datagramEncodingRU == 2

\* the code points of "!" .. "u"
base85CharsetASCII == [i \in 1..85 |-> 32 + i]

\* the code points of the substituted alphabet, as they stand in the source
base85CharsetRU ==
    << 37034, 26012, 32961, 35856, 20889, 26800, 35106, 21368, 34809, 25032,
       27844, 27899, 35874, 23633, 34218, 48, 49, 50, 51, 52,
       53, 54, 55, 56, 57, 33455, 38156, 35081, 35083, 35084,
       35085, 35086, 65, 66, 67, 68, 69, 70, 71, 72,
       73, 74, 75, 76, 77, 78, 79, 80, 81, 82,
       83, 84, 85, 86, 87, 88, 89, 90, 35087, 35089,
       35092, 35093, 35094, 35095, 97, 98, 99, 100, 101, 102,
       103, 104, 105, 106, 107, 108, 109, 110, 111, 112,
       113, 114, 115, 116, 117 >>

\* bytes.Map with the alphabet table: the first entry of `from` equal to r
\* gives the character of `to` at the same place; other characters stay
mapRune(r, from, to) ==
    IF \E i \in 1..85 : from[i] = r
    THEN to[CHOOSE i \in 1..85 : from[i] = r /\ \A j \in 1..(i - 1) : from[j] # r]
    ELSE r

base85Encode(in, enc) ==
    LET dst == ascii85Encode(in)
    IN  IF enc = datagramEncodingRU
        THEN [i \in 1..Len(dst) |-> mapRune(dst[i], base85CharsetASCII, base85CharsetRU)]
        ELSE dst

base85Decode(in) ==
    LET enc == IF \E i \in 1..Len(in) : in[i] > 127
               THEN datagramEncodingRU ELSE datagramEncodingASCII
        src == IF enc = datagramEncodingRU
               THEN [i \in 1..Len(in) |-> mapRune(in[i], base85CharsetRU, base85CharsetASCII)]
               ELSE in
    IN  ascii85Decode(src, Len(src))

newDatagram(dev, ses, num, cmd, pld) ==
    [version |-> 1, checksum |-> ZeroWord, device |-> dev, session |-> ses,
     number |-> num, command |-> cmd, payload |-> pld]

\* datagram{}: the zero value returned beside an error and for a loopback
zeroDatagram ==
    [version |-> 0, checksum |-> ZeroWord, device |-> 0, session |-> 0,
     number |-> 0, command |-> 0, payload |-> <<>>]

\* the identifier this process stamps on what it sends (a start-up timestamp
\* in the source; any value that differs from the remote one)
deviceID == 1700000000

remoteDevice == 1700000001

\* an isLoopback that takes no datagram for the process's own
isLoopbackNever(dg) == FALSE

isLoopback(dg) == dg.device = deviceID

isZero(dg) == dg.version = 0

\* encodeDatagram before base85Encode: the bytes of the frame, the checksum
\* written at offset 2
datagramFrame(dg) ==
    LET data == BigEndian(dg.version, 2) \o dg.checksum \o BigEndian(dg.device, 8)
                \o BigEndian(dg.session, 4) \o BigEndian(dg.number, 4)
                \o BigEndian(dg.command, 2) \o dg.payload
        crc == ChecksumIEEE(data)
    IN  [i \in 1..Len(data) |-> IF i \in 3..6 THEN crc[i - 2] ELSE data[i]]

encodeDatagram(dg, enc) == base85Encode(datagramFrame(dg), enc)

decodeDatagram(s) ==
    LET r == base85Decode(s)
        data == r.out
        sum == SubSeq(data, 3, 6)
        cleared == [i \in 1..Len(data) |-> IF i \in 3..6 THEN 0 ELSE data[i]]
    IN  IF r.err # "nil" THEN [err |-> r.err, dg |-> zeroDatagram]
        ELSE IF Len(data) < datagramHeaderLen
             THEN [err |-> "malformed", dg |-> zeroDatagram]
        ELSE IF sum # ChecksumIEEE(cleared)
             THEN [err |-> "malformed", dg |-> zeroDatagram]
        ELSE [err |-> "nil",
              dg |-> [version |-> FromBigEndian(SubSeq(data, 1, 2)),
                      checksum |-> sum,
                      device |-> FromBigEndian(SubSeq(data, 7, 14)),
                      session |-> FromBigEndian(SubSeq(data, 15, 18)),
                      number |-> FromBigEndian(SubSeq(data, 19, 22)),
                      command |-> FromBigEndian(SubSeq(data, 23, 24)),
                      payload |-> SubSeq(data, datagramHeaderLen + 1, Len(data))]]

(***************************************************************************)
(* Bounds of the tunnel model                                              *)
(***************************************************************************)
\* the remote process sends the datagrams numbered 1 .. MaxNumber
MaxNumber == 3

\* the carriers hand at most this many datagrams (copies included) to the handler
MaxArrivals == 3

\* the SOCKS goroutine forwards at most this many chunks read from the peer
MaxLocalSends == 1

\* the retry timer of the handler queue fires at most this many times
MaxExpiries == 4

(***************************************************************************)
(* The session                                                             *)
(***************************************************************************)
\* the identifier of the modelled session
sessionID == 7

\* the capacity of session.writes and session.datagrams made by openSession
sessionQueueSize == 500

\* a writePeer that does not look at session.closed
writePeerErrOpen ==
    IF sesPeer = "nil" THEN "nopeer"
    ELSE IF Len(sesWrites) >= queueSize THEN "full"
    ELSE "nil"

\* the error writePeer returns in the current state
writePeerErr ==
    IF sesClosed THEN "closed"
    ELSE IF sesPeer = "nil" THEN "nopeer"
    ELSE IF Len(sesWrites) >= queueSize THEN "full"
    ELSE "nil"

\* session.writePeer(b): what it does to the session (and to `accepted`)
writePeer(b) ==
    /\ sesWrites' = IF writePeerErr = "nil" THEN Append(sesWrites, b) ELSE sesWrites
    /\ sesActivity' = IF writePeerErr \in {"nil", "full"} THEN now ELSE sesActivity
    /\ accepted' = IF writePeerErr = "nil" THEN Append(accepted, b) ELSE accepted
    /\ UNCHANGED <<sessions, sesClosed, sesPeer, sesOnClose, sesDatagrams, sesHistory,
                   sesNumber, closer>>

\* the error sendDatagram returns in the current state
sendDatagramErr ==
    IF sesClosed THEN "closed"
    ELSE IF Len(sesDatagrams) >= queueSize THEN "full"
    ELSE "nil"

\* the clone sendDatagram queues: a datagram of session 0 is stamped
stamped(dg) == IF dg.session = 0 THEN [dg EXCEPT !.session = sessionID] ELSE dg

\* session.sendDatagram(dg): what it does to the session
sendDatagram(dg) ==
    /\ sesDatagrams' = IF sendDatagramErr = "nil"
                       THEN Append(sesDatagrams, stamped(dg)) ELSE sesDatagrams
    /\ sesActivity' = IF sendDatagramErr \in {"nil", "full"} THEN now ELSE sesActivity
    /\ UNCHANGED <<sessions, sesClosed, sesPeer, sesOnClose, sesWrites, sesHistory,
                   sesNumber, closer, accepted>>

\* a close() that does not look at session.closed
closeBeginAgain(g) ==
    /\ sesClosed' = TRUE
    /\ closer' = g
    /\ UNCHANGED <<sessions, sesPeer, sesOnClose, sesWrites, sesDatagrams, sesHistory,
                   sesNumber, sesActivity, accepted>>

\* session.close() up to wg.Wait(), called by goroutine g: a closed session
\* makes it return at once, an open one is marked closed and its two
\* channels are closed (a closed channel is sesClosed with its buffer)
closeBegin(g) ==
    /\ sesClosed' = TRUE
    /\ closer' = IF sesClosed THEN closer ELSE g
    /\ UNCHANGED <<sessions, sesPeer, sesOnClose, sesWrites, sesDatagrams, sesHistory,
                   sesNumber, sesActivity, accepted>>

\* a wg.Wait() that does not wait for listenDatagrams
closeWaitWrites == sesClosed /\ sesWrites = <<>>

\* a wg.Wait() that does not wait for the goroutines of executePlan
closeWaitDrainers == sesClosed /\ sesWrites = <<>> /\ sesDatagrams = <<>>

\* wg.Wait() returns once both drainers and the goroutines of executePlan
\* have returned: listenWrites and listenDatagrams return when their channel
\* is closed and drained
closeWaitOver == sesClosed /\ sesWrites = <<>> /\ sesDatagrams = <<>> /\ workers = {}

\* session.close() after wg.Wait(): the peer is closed, onClose is published
closeEnd ==
    /\ sesPeer' = IF sesPeer = "nil" THEN "nil" ELSE "closed"
    /\ sesOnClose' = TRUE
    /\ closer' = "none"
    /\ UNCHANGED <<sessions, sesClosed, sesWrites, sesDatagrams, sesHistory,
                   sesNumber, sesActivity, accepted>>

\* an isInactive that allows one tick more
isInactiveLate ==
    IF sesClosed THEN FALSE
    ELSE IF timeout = 0 THEN FALSE
    ELSE now - sesActivity > timeout + 1

\* session.isInactive()
isInactive ==
    IF sesClosed THEN FALSE
    ELSE IF timeout = 0 THEN FALSE
    ELSE now - sesActivity > timeout

\* listenWrites takes the next chunk and calls writeSocks: the socket takes
\* the chunk (ok) or the write fails and the error is logged; a closed
\* socket only fails
WriteDrain ==
    /\ sessions
    /\ sesWrites # <<>>
    /\ \E ok \in BOOLEAN :
         /\ ok => sesPeer = "open"
         /\ peerLog' = IF ok THEN Append(peerLog, Head(sesWrites)) ELSE peerLog
    /\ sesWrites' = Tail(sesWrites)
    /\ UNCHANGED <<sessions, sesClosed, sesPeer, sesOnClose, sesDatagrams, sesHistory,
                   sesNumber, sesActivity, closer>>
    /\ UNCHANGED <<codecVars, socksVars, cfgVars, planVars, queueVars, socks, localSent, carrier, timeVars,
                   storageVars, sigVars, chanVars, histVars, lastCall>>

\* a createPlan that numbers every datagram anew
fragmentRenumbered(dg) == [dg EXCEPT !.number = sesNumber + 1]

\* createPlan for a datagram that fits one fragment: a datagram without a
\* number takes the next one of the session, a numbered one keeps its own
fragmentOf(dg) == IF dg.number = 0 THEN [dg EXCEPT !.number = sesNumber + 1] ELSE dg

\* the carriers after one more copy of fragment fg has been handed to them
dispatched(fg) ==
    IF fg \in DOMAIN carrier
    THEN [carrier EXCEPT ![fg] = @ + 1]
    ELSE (fg :> 1) @@ carrier

\* listenDatagrams takes the next datagram, plans it, records the fragment in
\* the history and hands it to a carrier
SendDrain ==
    /\ sessions
    /\ sesDatagrams # <<>>
    /\ LET dg == Head(sesDatagrams)
           fg == fragmentOf(dg)
       IN  /\ sesNumber' = IF dg.number = 0 THEN sesNumber + 1 ELSE sesNumber
           /\ sesHistory' = (fg.number :> fg) @@ sesHistory
           /\ carrier' = dispatched(fg)
    /\ sesDatagrams' = Tail(sesDatagrams)
    /\ UNCHANGED <<sessions, sesClosed, sesPeer, sesOnClose, sesWrites, sesActivity,
                   closer>>
    /\ UNCHANGED <<codecVars, socksVars, cfgVars, planVars, queueVars, socks, localSent, peerLog, timeVars,
                   storageVars, sigVars, chanVars, histVars, lastCall>>

(***************************************************************************)
(* The remote stream                                                       *)
(***************************************************************************)
\* payloadConnect.encode() of host "1", port 80
connectPayload == <<49, 0, 80>>

\* payloadRetry.encode()
retryPayload(k) == BigEndian(k, 4)

\* payloadRetry.decode(): the number, or -1 for a payload shorter than 4 bytes
retryNumber(pld) == IF Len(pld) < 4 THEN -1 ELSE FromBigEndian(SubSeq(pld, 1, 4))

\* the chunk carried by the FORWARD datagram numbered k of the remote stream
chunk(k) == <<64 + k>>

\* What the remote process sends on the session, by the side this process is on:
\*   "exit"   - this process dials the target: CONNECT, then FORWARD chunks;
\*   "entry"  - this process accepted the SOCKS client: FORWARD chunks only;
\*   "sender" - as "entry", and the remote answers with RETRY(k) and a CLOSE;
\*   "closing" - as "entry", and the second datagram is a CLOSE, the third a
\*              RETRY(1);
\*   "unknown" - as "entry", and the second datagram carries a command this
\*              version does not know.
remoteStream(side) ==
    [k \in 1..MaxNumber |->
        IF side = "exit" /\ k = 1
        THEN newDatagram(remoteDevice, sessionID, k, commandConnect, connectPayload)
        ELSE IF side = "closing" /\ k = 2
        THEN newDatagram(remoteDevice, sessionID, k, commandClose, <<>>)
        ELSE IF side = "closing" /\ k = 3
        THEN newDatagram(remoteDevice, sessionID, k, commandRetry, retryPayload(1))
        ELSE IF side = "unknown" /\ k = 2
        THEN newDatagram(remoteDevice, sessionID, k, commandUnknown, <<>>)
        ELSE IF side = "sender"
        THEN IF k = MaxNumber
             THEN newDatagram(remoteDevice, sessionID, k, commandClose, <<>>)
             ELSE newDatagram(remoteDevice, sessionID, k, commandRetry, retryPayload(k))
        ELSE newDatagram(remoteDevice, sessionID, k, commandForward, chunk(k))]

\* the chunks of the FORWARD datagrams numbered lo .. hi of the remote stream
RECURSIVE forwarded(_, _)
forwarded(lo, hi) ==
    IF hi < lo THEN <<>>
    ELSE IF remote[hi].command = commandForward
    THEN Append(forwarded(lo, hi - 1), remote[hi].payload)
    ELSE forwarded(lo, hi - 1)

(***************************************************************************)
(* The handler priority queue                                              *)
(***************************************************************************)
\* a handle() that files each staged datagram under its place of arrival
RECURSIVE movedAsArrived(_, _)
movedAsArrived(d, t) ==
    IF t = <<>> THEN d
    ELSE movedAsArrived((Cardinality(DOMAIN d) + 1 :> Head(t)) @@ d, Tail(t))

\* handle(): q.data after the staged datagrams have been moved into it
RECURSIVE moved(_, _)
moved(d, t) ==
    IF t = <<>> THEN d ELSE moved((Head(t).number :> Head(t)) @@ d, Tail(t))

\* retry(): the datagram q.next is neither in q.data nor staged in q.temp
nextMissing ==
    /\ qNext \notin DOMAIN qData
    /\ \A i \in DOMAIN qTemp : qTemp[i].number # qNext

\* a handleDatagram that does not look for the queue of the session in
\* handleDatagramQueues and opens a queue for every datagram
handleDatagramsAnew(dgs) ==
    IF dgs = <<>>
    THEN UNCHANGED <<sessions, sesClosed, sesPeer, sesOnClose, sesWrites, sesDatagrams,
                     sesHistory, sesNumber, sesActivity, closer, queues, qClosed,
                     qTemp, qData, qNext, qPending, qRetries, qSignal, lpc>>
    ELSE
    /\ sessions' = TRUE
    /\ IF sessions
       THEN UNCHANGED <<sesClosed, sesPeer, sesOnClose, sesWrites, sesDatagrams,
                        sesHistory, sesNumber, sesActivity, closer>>
       ELSE /\ sesClosed' = FALSE /\ sesPeer' = "nil" /\ sesOnClose' = FALSE
            /\ sesWrites' = <<>> /\ sesDatagrams' = <<>> /\ sesHistory' = <<>>
            /\ sesNumber' = 0 /\ sesActivity' = now /\ closer' = "none"
    /\ queues' = TRUE
    /\ IF TRUE
       THEN /\ qClosed' = FALSE /\ qData' = <<>> /\ qNext' = 1 /\ qPending' = 0
            /\ qRetries' = 0 /\ lpc' = "select"
            /\ qTemp' = dgs /\ qSignal' = 1
       ELSE IF qClosed
       THEN UNCHANGED <<qClosed, qTemp, qData, qNext, qPending, qRetries, qSignal, lpc>>
       ELSE /\ qTemp' = qTemp \o dgs /\ qSignal' = 1
            /\ UNCHANGED <<qClosed, qData, qNext, qPending, qRetries, lpc>>

\* handleUpdate from line 108: handleDatagram(cfg, dg) for each datagram of
\* dgs.  The session and its queue are opened when they are not in their
\* tables, then queue.add() stages the datagram and leaves a token in q.signal
handleDatagrams(dgs) ==
    IF dgs = <<>>
    THEN UNCHANGED <<sessions, sesClosed, sesPeer, sesOnClose, sesWrites, sesDatagrams,
                     sesHistory, sesNumber, sesActivity, closer, queues, qClosed,
                     qTemp, qData, qNext, qPending, qRetries, qSignal, lpc>>
    ELSE
    /\ sessions' = TRUE
    /\ IF sessions
       THEN UNCHANGED <<sesClosed, sesPeer, sesOnClose, sesWrites, sesDatagrams,
                        sesHistory, sesNumber, sesActivity, closer>>
       ELSE /\ sesClosed' = FALSE /\ sesPeer' = "nil" /\ sesOnClose' = FALSE
            /\ sesWrites' = <<>> /\ sesDatagrams' = <<>> /\ sesHistory' = <<>>
            /\ sesNumber' = 0 /\ sesActivity' = now /\ closer' = "none"
    /\ queues' = TRUE
    /\ IF ~sessions \/ ~queues
       THEN /\ qClosed' = FALSE /\ qData' = <<>> /\ qNext' = 1 /\ qPending' = 0
            /\ qRetries' = 0 /\ lpc' = "select"
            /\ qTemp' = dgs /\ qSignal' = 1
       ELSE IF qClosed
       THEN UNCHANGED <<qClosed, qTemp, qData, qNext, qPending, qRetries, qSignal, lpc>>
       ELSE /\ qTemp' = qTemp \o dgs /\ qSignal' = 1
            /\ UNCHANGED <<qClosed, qData, qNext, qPending, qRetries, lpc>>

\* a carrier delivers the datagram numbered n of the remote stream
Arrive ==
    /\ Len(arrivals) < MaxArrivals
    /\ \E n \in DOMAIN remote :
         /\ handleDatagrams(<<remote[n]>>)
         /\ arrivals' = Append(arrivals, n)
    /\ UNCHANGED <<codecVars, socksVars, cfgVars, planVars, envVars, timeVars, storageVars, sigVars, chanVars, accepted,
                   expiries, timerFires, received, lastCall>>

\* listen(): the select takes the token of q.signal
OnSignal ==
    /\ lpc = "select" /\ qSignal = 1
    /\ qSignal' = 0
    /\ lpc' = "merge"
    /\ UNCHANGED <<queues, qClosed, qTemp, qData, qNext, qPending, qRetries>>
    /\ UNCHANGED <<codecVars, socksVars, cfgVars, planVars, sesVars, envVars, timeVars, storageVars, sigVars, chanVars,
                   histVars, lastCall>>

\* handle(), under q.mu: the staged datagrams are moved into q.data
Merge ==
    /\ lpc = "merge"
    /\ qData' = moved(qData, qTemp)
    /\ qTemp' = <<>>
    /\ lpc' = "handle"
    /\ UNCHANGED <<queues, qClosed, qNext, qPending, qRetries, qSignal>>
    /\ UNCHANGED <<codecVars, socksVars, cfgVars, planVars, sesVars, envVars, timeVars, storageVars, sigVars, chanVars,
                   histVars, lastCall>>

\* the datagram handle() dispatches next, when there is one
ready == qNext \in DOMAIN qData

\* a handleConnect that dials and starts acceptSocks without installing the peer
handleConnectNoPeer(dg, dialled) ==
    /\ IF Len(dg.payload) >= 2 /\ dialled
       THEN /\ socks' = "running"
            /\ qNext' = qNext + 1 /\ lpc' = "handle"
       ELSE /\ lpc' = "stop"
            /\ UNCHANGED <<socks, qNext>>
    /\ UNCHANGED <<sesVars, accepted>>

\* handleConnect: the payload is decoded, the target is dialled (dialled says
\* whether net.DialTimeout succeeds), the peer is installed, acceptSocks starts
handleConnect(dg, dialled) ==
    /\ IF Len(dg.payload) >= 2 /\ dialled
       THEN /\ sesPeer' = "open" /\ socks' = "running"
            /\ qNext' = qNext + 1 /\ lpc' = "handle"
       ELSE /\ lpc' = "stop"
            /\ UNCHANGED <<sesPeer, socks, qNext>>
    /\ UNCHANGED <<sessions, sesClosed, sesOnClose, sesWrites, sesDatagrams, sesHistory,
                   sesNumber, sesActivity, closer, accepted>>

\* a handleForward after which handle() does not move q.next on
handleForwardAgain(dg) ==
    /\ writePeer(dg.payload)
    /\ IF writePeerErr = "nil"
       THEN lpc' = "handle" /\ UNCHANGED qNext
       ELSE lpc' = "stop" /\ UNCHANGED qNext
    /\ UNCHANGED socks

\* handleForward
handleForward(dg) ==
    /\ writePeer(dg.payload)
    /\ IF writePeerErr = "nil"
       THEN qNext' = qNext + 1 /\ lpc' = "handle"
       ELSE lpc' = "stop" /\ UNCHANGED qNext
    /\ UNCHANGED socks

\* a handleClose that sends a CLOSE back before it closes the session
handleCloseNotify ==
    /\ sesClosed' = TRUE
    /\ closer' = IF sesClosed THEN closer ELSE "listener"
    /\ sesDatagrams' = IF sesClosed THEN sesDatagrams
                       ELSE Append(sesDatagrams,
                                   newDatagram(deviceID, sessionID, 0, commandClose, <<>>))
    /\ UNCHANGED <<sessions, sesPeer, sesOnClose, sesWrites, sesHistory, sesNumber,
                   sesActivity, accepted>>
    /\ IF sesClosed
       THEN qNext' = qNext + 1 /\ lpc' = "handle"
       ELSE lpc' = "closewait" /\ UNCHANGED qNext
    /\ UNCHANGED socks

\* handleClose: ses.close() returns at once on a closed session, else the
\* listener goes on to wg.Wait()
handleClose ==
    /\ closeBegin("listener")
    /\ IF sesClosed
       THEN qNext' = qNext + 1 /\ lpc' = "handle"
       ELSE lpc' = "closewait" /\ UNCHANGED qNext
    /\ UNCHANGED socks

\* handleRetry: a fragment found in the history is handed to sendDatagram as
\* it is, a miss is logged
handleRetry(dg) ==
    LET k == retryNumber(dg.payload)
    IN  /\ IF k = -1
           THEN /\ lpc' = "stop"
                /\ UNCHANGED <<sesVars, accepted, qNext>>
           ELSE IF k \in DOMAIN sesHistory
           THEN /\ sendDatagram(sesHistory[k])
                /\ IF sendDatagramErr = "nil"
                   THEN qNext' = qNext + 1 /\ lpc' = "handle"
                   ELSE lpc' = "stop" /\ UNCHANGED qNext
           ELSE /\ qNext' = qNext + 1 /\ lpc' = "handle"
                /\ UNCHANGED <<sesVars, accepted>>
        /\ UNCHANGED socks

\* a handleCommand that skips a command it does not know
handleCommandSkip(dg, dialled) ==
    CASE dg.command = commandConnect -> handleConnect(dg, dialled)
      [] dg.command = commandForward -> handleForward(dg)
      [] dg.command = commandClose -> handleClose
      [] dg.command = commandRetry -> handleRetry(dg)
      [] OTHER -> /\ qNext' = qNext + 1 /\ lpc' = "handle"
                  /\ UNCHANGED <<sesVars, accepted, socks>>

\* handleCommand(cfg, ses, dg)
handleCommand(dg, dialled) ==
    CASE dg.command = commandConnect -> handleConnect(dg, dialled)
      [] dg.command = commandForward -> handleForward(dg)
      [] dg.command = commandClose -> handleClose
      [] dg.command = commandRetry -> handleRetry(dg)
      [] OTHER -> /\ lpc' = "stop"
                  /\ UNCHANGED <<sesVars, accepted, qNext, socks>>

\* handle(): the datagram numbered q.next is dispatched; an error stops the
\* listener, else q.next moves on
Dispatch ==
    /\ lpc = "handle" /\ ready
    /\ \E dialled \in BOOLEAN : handleCommand(qData[qNext], dialled)
    /\ UNCHANGED <<queues, qClosed, qTemp, qData, qPending, qRetries, qSignal>>
    /\ UNCHANGED <<codecVars, socksVars, cfgVars, planVars, localSent, peerLog, carrier, timeVars, storageVars, sigVars, chanVars,
                   arrivals, expiries, timerFires, received, lastCall>>

\* handle() returns false when the datagram numbered q.next is not in q.data
HandleReturn ==
    /\ lpc = "handle" /\ ~ready
    /\ lpc' = "select"
    /\ UNCHANGED <<queues, qClosed, qTemp, qData, qNext, qPending, qRetries, qSignal>>
    /\ UNCHANGED <<codecVars, socksVars, cfgVars, planVars, sesVars, envVars, timeVars, storageVars, sigVars, chanVars,
                   histVars, lastCall>>

\* q.send(cmd, pld): the datagram is handed to sendDatagram, an error is logged
send(cmd, pld) == sendDatagram(newDatagram(deviceID, 0, 0, cmd, pld))

\* a retry() that gives up one probe earlier
retriesOverEarly == qNext = qPending /\ qRetries >= 2

\* retry() gives up: the probe for q.next has been sent three times already
retriesOver == qNext = qPending /\ qRetries >= 3

\* q.retry(), under q.mu.  Nothing happens when the datagram q.next is at
\* hand; when three probes for q.next are out the listener stops; any other
\* call sends RETRY(q.next)
retry ==
    /\ IF ~nextMissing
       THEN UNCHANGED <<sesVars, accepted, qPending, qRetries, lpc, expiries>>
       ELSE /\ expiries' = IF expiries.num = qNext
                           THEN [expiries EXCEPT !.count = @ + 1]
                           ELSE [num |-> qNext, count |-> 1]
            /\ IF retriesOver
               THEN /\ lpc' = "stop"
                    /\ UNCHANGED <<sesVars, accepted, qPending, qRetries>>
               ELSE /\ qPending' = qNext
                    /\ qRetries' = IF qNext = qPending THEN qRetries + 1 ELSE 1
                    /\ send(commandRetry, retryPayload(qNext))
                    /\ UNCHANGED lpc
    /\ UNCHANGED <<queues, qClosed, qTemp, qData, qNext, qSignal>>
    /\ UNCHANGED <<codecVars, socksVars, cfgVars, planVars, envVars, timeVars, storageVars, sigVars, chanVars, arrivals,
                   received, lastCall>>

\* listen(): the retry timer fires and retry() runs
OnTimer ==
    /\ lpc = "select"
    /\ timerFires < MaxExpiries
    /\ timerFires' = timerFires + 1
    /\ retry

\* listen(): the select finds session.onClose closed and listen() returns
OnClose ==
    /\ lpc = "select" /\ sesOnClose
    /\ lpc' = "return"
    /\ UNCHANGED <<queues, qClosed, qTemp, qData, qNext, qPending, qRetries, qSignal>>
    /\ UNCHANGED <<codecVars, socksVars, cfgVars, planVars, sesVars, envVars, timeVars, storageVars, sigVars, chanVars,
                   histVars, lastCall>>

\* listen() after handle() or retry() returned true: q.send(commandClose, nil)
StopSend ==
    /\ lpc = "stop"
    /\ send(commandClose, <<>>)
    /\ lpc' = "stopclose"
    /\ UNCHANGED <<queues, qClosed, qTemp, qData, qNext, qPending, qRetries, qSignal>>
    /\ UNCHANGED <<codecVars, socksVars, cfgVars, planVars, envVars, timeVars, storageVars, sigVars, chanVars, arrivals,
                   expiries, timerFires, received, lastCall>>

\* a listen() that returns after q.send(commandClose, nil) without
\* handleClose(q.ses)
StopReturn ==
    /\ lpc = "stopclose"
    /\ lpc' = "return"
    /\ UNCHANGED <<queues, qClosed, qTemp, qData, qNext, qPending, qRetries, qSignal>>
    /\ UNCHANGED <<codecVars, socksVars, cfgVars, planVars, sesVars, envVars, timeVars, storageVars,
                   sigVars, chanVars, histVars, lastCall>>

\* listen() after q.send(commandClose, nil): handleClose(q.ses)
StopClose ==
    /\ lpc = "stopclose"
    /\ closeBegin("listener")
    /\ lpc' = IF sesClosed THEN "return" ELSE "stopwait"
    /\ UNCHANGED <<queues, qClosed, qTemp, qData, qNext, qPending, qRetries, qSignal>>
    /\ UNCHANGED <<codecVars, socksVars, cfgVars, planVars, envVars, timeVars, storageVars, sigVars, chanVars, arrivals,
                   expiries, timerFires, received, lastCall>>

\* wg.Wait() is over for the goroutine inside close(): close() finishes and
\* the goroutine goes on
CloseEnd ==
    /\ closer # "none" /\ closeWaitOver
    /\ closeEnd
    /\ lpc' = IF closer # "listener" THEN lpc
              ELSE IF lpc = "closewait" THEN "handle" ELSE "return"
    /\ qNext' = IF closer = "listener" /\ lpc = "closewait" THEN qNext + 1 ELSE qNext
    /\ socks' = IF closer = "socks" THEN "done" ELSE socks
    /\ reaperGo' = IF closer = "reaper" THEN FALSE ELSE reaperGo
    /\ UNCHANGED <<queues, qClosed, qTemp, qData, qPending, qRetries, qSignal>>
    /\ UNCHANGED <<codecVars, socksVars, cfgVars, planVars, localSent, peerLog, carrier, now, reaperAt,
                   storageVars, sigVars, chanVars, arrivals, expiries, timerFires, received, lastCall>>

\* the goroutine of openHandlerPriorityQueue after listen(): q.close()
QueueClose ==
    /\ lpc = "return"
    /\ qTemp' = [i \in DOMAIN qTemp |-> zeroDatagram]
    /\ qData' = <<>>
    /\ qClosed' = TRUE
    /\ lpc' = "done"
    /\ UNCHANGED <<queues, qNext, qPending, qRetries, qSignal>>
    /\ UNCHANGED <<codecVars, socksVars, cfgVars, planVars, sesVars, envVars, timeVars, storageVars, sigVars, chanVars,
                   histVars, lastCall>>

(***************************************************************************)
(* The SOCKS goroutine of the session                                      *)
(***************************************************************************)
\* the chunk number i the SOCKS goroutine reads from the peer
localChunk(i) == <<96 + i>>

\* forwardsSocks / handleStageForward: a chunk read from the peer is handed
\* to sendDatagram as a FORWARD; an error ends the forward loop
LocalSend ==
    /\ socks = "running" /\ localSent < peerChunks
    /\ sendDatagram(newDatagram(deviceID, 0, 0, commandForward, localChunk(localSent + 1)))
    /\ localSent' = localSent + 1
    /\ socks' = IF sendDatagramErr = "nil" THEN "running" ELSE "failed"
    /\ UNCHANGED <<peerLog, carrier>>
    /\ UNCHANGED <<codecVars, socksVars, cfgVars, planVars, queueVars, timeVars, storageVars, sigVars, chanVars, arrivals,
                   expiries, timerFires, received, lastCall>>

\* handleSocks: after an error of the forward loop the peer is closed
SocksPeerClose ==
    /\ socks = "failed"
    /\ sesPeer' = "closed"
    /\ socks' = "ending"
    /\ UNCHANGED <<sessions, sesClosed, sesOnClose, sesWrites, sesDatagrams, sesHistory,
                   sesNumber, sesActivity, closer>>
    /\ UNCHANGED <<localSent, peerLog, carrier>>
    /\ UNCHANGED <<codecVars, socksVars, cfgVars, planVars, queueVars, timeVars, storageVars, sigVars, chanVars, histVars, lastCall>>

\* acceptSocks: handleSocks returns (the peer hung up, a read timed out, the
\* forward loop failed) and the deferred ses.close() runs
SocksEnd ==
    /\ socks \in {"running", "ending"}
    /\ closeBegin("socks")
    /\ socks' = IF sesClosed THEN "done" ELSE "closing"
    /\ UNCHANGED <<localSent, peerLog, carrier>>
    /\ UNCHANGED <<codecVars, socksVars, cfgVars, planVars, queueVars, timeVars, storageVars, sigVars, chanVars, arrivals,
                   expiries, timerFires, received, lastCall>>

(***************************************************************************)
(* Initial states                                                          *)
(***************************************************************************)
noResult == [err |-> "none", dg |-> zeroDatagram]

noCall ==
    [op |-> "none", err |-> "nil", wasClosed |-> FALSE, changed |-> FALSE,
     blocked |-> FALSE]

CodecOff ==
    /\ cpc = "off" /\ frame = <<>> /\ dgIn = zeroDatagram /\ encIn = datagramEncodingASCII
    /\ encoded = <<>> /\ decoded = noResult

\* the CONNECT the entry side sent when it took the SOCKS request
\* (handleStageConnectSession), as createPlan numbered it
sentConnect == newDatagram(deviceID, sessionID, 1, commandConnect, connectPayload)

\* The session of the side.  On the exit side the table is empty until the
\* first datagram arrives.  On the entry side listenSocks has opened the
\* session, installed the peer and started acceptSocks, and the CONNECT has
\* gone out as fragment 1.
SessionInit(side) ==
    /\ sessions = (side # "exit")
    /\ sesClosed = FALSE
    /\ sesPeer = IF side = "exit" THEN "nil" ELSE "open"
    /\ sesOnClose = FALSE
    /\ sesWrites = <<>> /\ sesDatagrams = <<>>
    /\ sesHistory = IF side = "exit" THEN <<>> ELSE <<sentConnect>>
    /\ sesNumber = IF side = "exit" THEN 0 ELSE 1
    /\ sesActivity = 0
    /\ closer = "none"
    /\ socks = IF side = "exit" THEN "none" ELSE "running"
    /\ localSent = 0
    /\ peerLog = <<>>
    /\ carrier = IF side = "exit" THEN <<>> ELSE (sentConnect :> 1)

\* no SOCKS state machine is modelled
noAddr == [host |-> <<>>, port |-> 0]

SocksOff ==
    /\ stage = 0 /\ sockIn = <<>> /\ sockOut = <<>> /\ addr = noAddr
    /\ readErr = "off" /\ fwdBuf = <<>> /\ fwdErr = "off" /\ fwdChunks = <<>>
    /\ fwdStop = FALSE /\ fwdRead = <<>>
    /\ forwardSize = 0

\* no handler queue is open before the first datagram arrives
QueueInit ==
    /\ queues = FALSE /\ qClosed = FALSE /\ qTemp = <<>> /\ qData = <<>>
    /\ qNext = 1 /\ qPending = 0 /\ qRetries = 0 /\ qSignal = 0 /\ lpc = "none"

\* no update has come in
noUpdate == [n |-> 0, via |-> "none", own |-> FALSE]

HistInit ==
    /\ received = noUpdate /\ arrivals = <<>> /\ accepted = <<>>
    /\ expiries = [num |-> 0, count |-> 0]
    /\ timerFires = 0
    /\ lastCall = noCall

\* the clock stands and no reaper runs
TimeOff == now = 0 /\ reaperAt = -1 /\ reaperGo = FALSE

\* storageNamespaceUnknown, and the zero time.Time as -1
StorageInit == storageNamespace = 1 /\ storageNamespaceChangedAt = -1

\* no goroutine uses the connected signal
SignalOff == sigConn = 0 /\ sigConnCl = FALSE /\ sigProcs = <<>>

\* no goroutine is followed through its calls on the channels
ChanOff ==
    /\ chanMu = 0 /\ chanCloses = [writes |-> 0, datagrams |-> 0]
    /\ chanPanics = 0 /\ chanProcs = <<>>

\* createPlan has not run
noPlan == [methods |-> <<>>, fragments |-> <<>>, err |-> "none"]

\* the sending side is not modelled: no post-id is known, no carrier call is
\* in flight, and no second process shares the storage
PlanOff ==
    /\ unauthorized = FALSE /\ qrImageLevel = 0
    /\ posts = {} /\ planIn = zeroDatagram /\ plan = noPlan
    /\ workers = {} /\ failed = <<>> /\ returned = <<>>
    /\ stores = <<>>

(***************************************************************************)
(* SpecTunnel: one session under any delivery of the remote stream         *)
(***************************************************************************)
Sides == {"exit", "entry", "sender"}

TunnelInit ==
    /\ CodecOff /\ SocksOff /\ QueueInit /\ HistInit /\ TimeOff /\ StorageInit /\ SignalOff /\ ChanOff /\ PlanOff
    /\ queueSize = sessionQueueSize
    /\ timeout = 0
    /\ \E side \in Sides :
         /\ remote = remoteStream(side)
         /\ peerChunks = IF side = "sender" THEN MaxLocalSends ELSE 0
         /\ SessionInit(side)

TunnelNext ==
    \/ Arrive \/ OnSignal \/ Merge \/ Dispatch \/ HandleReturn
    \/ OnTimer \/ OnClose \/ StopSend \/ StopClose \/ CloseEnd \/ QueueClose
    \/ LocalSend \/ SocksPeerClose \/ SocksEnd
    \/ WriteDrain \/ SendDrain

SpecTunnel == TunnelInit /\ [][TunnelNext]_vars

(***************************************************************************)
(* SpecCodec: one datagram is encoded with one alphabet, the string is     *)
(* decoded again                                                           *)
(***************************************************************************)
CodecDevices == {deviceID, remoteDevice}

DataGroup == <<222, 173, 190, 239>>

RECURSIVE GroupSeqs(_)
GroupSeqs(n) ==
    IF n = 0 THEN {<<>>}
    ELSE LET shorter == GroupSeqs(n - 1)
         IN  shorter \cup {s \o g : s \in shorter, g \in {ZeroWord, DataGroup}}

CodecTails == {<<>>, <<0>>, <<222, 173>>}

CodecPayloads == {s \o t : s \in GroupSeqs(MaxPayloadGroups), t \in CodecTails}

CodecDatagrams ==
    {newDatagram(dev, sessionID, num, cmd, pld) :
        dev \in CodecDevices, num \in {0, 1},
        cmd \in {commandConnect, commandForward}, pld \in CodecPayloads}

CodecInit ==
    /\ cpc = "start"
    /\ frame = <<>>
    /\ dgIn \in CodecDatagrams
    /\ encIn \in {datagramEncodingASCII, datagramEncodingRU}
    /\ encoded = <<>>
    /\ decoded = noResult
    /\ SocksOff /\ QueueInit /\ HistInit /\ TimeOff /\ StorageInit /\ SignalOff /\ ChanOff /\ PlanOff
    /\ queueSize = sessionQueueSize /\ timeout = 0
    /\ remote = <<>> /\ peerChunks = 0
    /\ SessionInit("exit")

CodecEncode ==
    /\ cpc = "start"
    /\ encoded' = encodeDatagram(dgIn, encIn)
    /\ cpc' = "encoded"
    /\ UNCHANGED <<frame, dgIn, encIn, decoded>>
    /\ UNCHANGED <<socksVars, cfgVars, planVars, sesVars, queueVars, envVars, timeVars, storageVars, sigVars, chanVars,
                   histVars, lastCall>>

CodecDecode ==
    /\ cpc = "encoded"
    /\ decoded' = decodeDatagram(encoded)
    /\ cpc' = "decoded"
    /\ UNCHANGED <<frame, dgIn, encIn, encoded>>
    /\ UNCHANGED <<socksVars, cfgVars, planVars, sesVars, queueVars, envVars, timeVars, storageVars, sigVars, chanVars,
                   histVars, lastCall>>

CodecNext == CodecEncode \/ CodecDecode

SpecCodec == CodecInit /\ [][CodecNext]_vars

(***************************************************************************)
(* Properties of SpecTunnel                                                *)
(***************************************************************************)
\* the chunks of all FORWARD datagrams of the remote stream, in number order:
\* the byte stream of the sender
senderStream == forwarded(1, Len(remote))

isPrefix(s, t) == Len(s) <= Len(t) /\ s = SubSeq(t, 1, Len(s))

\* C1: under any reordering, duplication or delay of the datagrams, the bytes
\* written to the peer are always a prefix of the sender's byte stream (the
\* FORWARD payloads reach the peer in strictly increasing number order).
C1_PeerPrefix == isPrefix(peerLog, senderStream)

\* the payloads handed to the peer-write queue are a prefix of the sender's
\* byte stream: what C1 says, one step before the socket
AcceptedPrefix == isPrefix(accepted, senderStream)

\* a step in which handle() dispatches a RETRY(k) whose fragment is in the history
retryHit ==
    /\ lpc = "handle" /\ ready /\ <<lpc, qNext>>' # <<lpc, qNext>>
    /\ qData[qNext].command = commandRetry
    /\ retryNumber(qData[qNext].payload) \in DOMAIN sesHistory

\* a step in which listenDatagrams plans and dispatches a numbered datagram
drainNumbered ==
    /\ sesDatagrams # <<>> /\ sesDatagrams' = Tail(sesDatagrams)
    /\ Head(sesDatagrams).number # 0

\* C4: when the handler processes RETRY(k) and fragment k is in the history,
\* fragment k is queued again as the history holds it (on an open session
\* with room in its queue) and dispatched with the same session, number,
\* command and payload; no number is assigned and no fragment of the same
\* number differs from the original.
C4_RetryResendsSame ==
    [][ /\ (retryHit /\ sendDatagramErr = "nil")
            => sesDatagrams' =
                 Append(sesDatagrams, sesHistory[retryNumber(qData[qNext].payload)])
        /\ drainNumbered
            => /\ carrier' = dispatched(Head(sesDatagrams))
               /\ sesNumber' = sesNumber
               /\ sesHistory'[Head(sesDatagrams).number] = Head(sesDatagrams)
        /\ \A f \in DOMAIN carrier' : \A g \in DOMAIN carrier' :
              f.number = g.number => f = g
      ]_vars

\* a fragment of the history has gone out twice after a RETRY for it
C4_Witness ==
    /\ remote[1].command = commandRetry
    /\ \E fg \in DOMAIN carrier :
         /\ carrier[fg] = 2
         /\ fg.number \in DOMAIN sesHistory /\ sesHistory[fg.number] = fg
    /\ qNext > 1

\* the k-th expiry in a row that finds the same datagram missing
gapExpiry(k) == expiries' # expiries /\ expiries'.count = k

\* the step queues RETRY(q.next)
emitsRetry ==
    sesDatagrams' =
        Append(sesDatagrams, newDatagram(deviceID, sessionID, 0, commandRetry,
                                         retryPayload(qNext)))

\* the listener is on its way out: CLOSE is sent and the session is closed
stopping == lpc \in {"stop", "stopclose", "stopwait", "return", "done"}

\* C6 as stated: 1 and 3 have arrived and 2 has not; RETRY(2) goes out at the
\* first expiry and the session is closed at the third expiry in a row.
C6_ClosesAtThird ==
    [][ arrivals = <<1, 3>> =>
          /\ (gapExpiry(1) /\ sendDatagramErr = "nil") => emitsRetry
          /\ gapExpiry(3) => lpc' = "stop"
      ]_vars

\* C6: with the gap open, RETRY(q.next) goes out at the first, second and
\* third expiry in a row and the listener stays; the fourth expiry in a row
\* sends no RETRY and stops the listener, which then hands CLOSE to
\* sendDatagram and closes the session.
C6_ClosesAtFourth ==
    [][ /\ \A k \in 1..3 :
             gapExpiry(k) => /\ lpc' = "select"
                             /\ sendDatagramErr = "nil" => emitsRetry
        /\ gapExpiry(4) => lpc' = "stop" /\ UNCHANGED sesDatagrams
        /\ (lpc = "stop" /\ lpc' # "stop")
             => /\ lpc' = "stopclose"
                /\ sendDatagramErr = "nil"
                     => sesDatagrams' =
                          Append(sesDatagrams,
                                 newDatagram(deviceID, sessionID, 0, commandClose, <<>>))
        /\ (lpc = "stopclose" /\ lpc' # "stopclose") => sesClosed'
      ]_vars

\* datagrams 1 and 3 have arrived, 2 never; the fourth expiry has stopped
\* the listener after three RETRY(2)
C6_Witness ==
    /\ arrivals = <<1, 3>>
    /\ expiries = [num |-> 2, count |-> 4]
    /\ stopping
    /\ \E fg \in DOMAIN carrier :
         fg.command = commandRetry /\ fg.payload = retryPayload(2)

\* no RETRY has been queued or dispatched
noRetrySent ==
    /\ \A i \in DOMAIN sesDatagrams : sesDatagrams[i].command # commandRetry
    /\ \A fg \in DOMAIN carrier : fg.command # commandRetry

\* C7: as long as the retry timer has not fired, whatever the arrival order,
\* the payloads handed to the peer are exactly those of the datagrams
\* numbered below q.next, in number order, each once, and no RETRY is sent;
\* the chunks reach the socket in that order when no write has failed.
C7_ReorderInOrder ==
    timerFires = 0 =>
        /\ accepted = forwarded(1, qNext - 1)
        /\ noRetrySent
        /\ Len(peerLog) + Len(sesWrites) = Len(accepted) => peerLog \o sesWrites = accepted

\* the arrival order 3, 1, 2 has been delivered and written to the socket as
\* chunk 1, chunk 2, chunk 3
C7_Witness ==
    /\ arrivals = <<3, 1, 2>>
    /\ remote[1].command = commandForward
    /\ accepted = <<chunk(1), chunk(2), chunk(3)>>
    /\ peerLog = accepted
    /\ timerFires = 0

\* C9: no FORWARD is handed to writePeer, and nothing is on the peer-write
\* path, before CONNECT has installed the peer.
C9_ConnectFirst ==
    /\ (lpc = "handle" /\ ready /\ qData[qNext].command = commandForward)
         => sesPeer # "nil"
    /\ (accepted # <<>> \/ sesWrites # <<>> \/ peerLog # <<>>) => sesPeer # "nil"

\* a FORWARD arrived before the CONNECT and its payload was handed to the
\* peer after the CONNECT
C9_Witness ==
    /\ remote[1].command = commandConnect
    /\ Len(arrivals) >= 2 /\ arrivals[1] = 2 /\ arrivals[2] = 1
    /\ accepted = <<chunk(2)>>


\* the number of chunks listenWrites took from session.writes and failed to
\* write to the peer
failedWrites == Len(accepted) - Len(sesWrites) - Len(peerLog)

\* C14: when the drainer of session.writes gets an error writing a queued
\* chunk to the local peer, the session is closed.
C14_WriteErrorCloses == failedWrites > 0 => sesClosed

\* the listener has given up on the gap at q.next: the fourth expiry in a row
\* found it missing
gaveUp == expiries = [num |-> qNext, count |-> 4]

\* C20: when the handler queue gives up on a gap of an open session, the CLOSE
\* datagram is put on session.datagrams while the session is still open, the
\* session is closed after that, and when the close() called by the queue
\* returns the CLOSE has been planned and handed to a carrier (the queue of
\* the session is not full).
C20_CloseSentBeforeClosed ==
    [][ gaveUp =>
          /\ (lpc = "stop" /\ lpc' # "stop" /\ ~sesClosed) =>
                 /\ sesDatagrams' =
                        Append(sesDatagrams,
                               newDatagram(deviceID, sessionID, 0, commandClose, <<>>))
                 /\ ~sesClosed' /\ lpc' = "stopclose"
          /\ (lpc = "stopclose" /\ lpc' # "stopclose") => sesClosed'
          /\ (lpc = "stopwait" /\ lpc' # "stopwait") =>
                 /\ sesDatagrams' = <<>>
                 /\ \E fg \in DOMAIN carrier' : fg.command = commandClose
                 /\ sesOnClose'
      ]_vars

\* the queue has given up, its close() has closed the session and returned,
\* and the CLOSE is with a carrier
C20_Witness ==
    /\ gaveUp /\ lpc = "return" /\ sesOnClose /\ socks = "running"
    /\ \E fg \in DOMAIN carrier : fg.command = commandClose /\ fg.session = sessionID
(***************************************************************************)
(* SpecSession: goroutines call writePeer, sendDatagram and close on one   *)
(* session while its two drainers run                                      *)
(***************************************************************************)
\* session.queue-size of the configuration of this run
SmallQueueSize == 2

\* the callers hand at most this many chunks and this many datagrams over
MaxCalls == 3

\* what the callers pass in
callChunk == <<65>>
callDatagram == newDatagram(0, 0, 0, commandForward, <<97>>)

SessionSpecInit ==
    /\ CodecOff /\ SocksOff /\ QueueInit /\ HistInit /\ TimeOff /\ StorageInit /\ SignalOff /\ ChanOff /\ PlanOff
    /\ queueSize = SmallQueueSize
    /\ timeout = 0
    /\ remote = <<>> /\ peerChunks = 0
    /\ sessions = TRUE
    /\ sesClosed = FALSE
    /\ sesPeer \in {"nil", "open"}
    /\ sesOnClose = FALSE
    /\ sesWrites = <<>> /\ sesDatagrams = <<>>
    /\ sesHistory = <<>>
    /\ sesNumber = 0
    /\ sesActivity = 0
    /\ closer = "none"
    /\ socks = "none" /\ localSent = 0 /\ peerLog = <<>> /\ carrier = <<>>

\* a goroutine calls ses.writePeer(callChunk)
CallWritePeer ==
    /\ sessions
    /\ Len(accepted) < MaxCalls
    /\ writePeer(callChunk)
    /\ lastCall' = [op |-> "writePeer", err |-> writePeerErr, wasClosed |-> sesClosed,
                    changed |-> <<sesWrites, sesDatagrams>>' # <<sesWrites, sesDatagrams>>,
                    blocked |-> FALSE]
    /\ UNCHANGED <<codecVars, socksVars, cfgVars, planVars, queueVars, envVars, timeVars, storageVars, sigVars, chanVars,
                   received, arrivals, expiries, timerFires>>

\* a goroutine calls ses.sendDatagram(callDatagram)
CallSendDatagram ==
    /\ sessions
    /\ sesNumber + Len(sesDatagrams) < MaxCalls
    /\ sendDatagram(callDatagram)
    /\ lastCall' = [op |-> "sendDatagram", err |-> sendDatagramErr,
                    wasClosed |-> sesClosed,
                    changed |-> <<sesWrites, sesDatagrams>>' # <<sesWrites, sesDatagrams>>,
                    blocked |-> FALSE]
    /\ UNCHANGED <<codecVars, socksVars, cfgVars, planVars, queueVars, envVars, timeVars, storageVars, sigVars, chanVars,
                   received, arrivals, expiries, timerFires>>

\* a goroutine calls ses.close(): on a closed session the call returns at
\* once, on an open one the goroutine goes into wg.Wait()
CallClose ==
    /\ sessions
    /\ closeBegin("caller")
    /\ lastCall' = [op |-> "close", err |-> "nil", wasClosed |-> sesClosed,
                    changed |-> sesVars' # sesVars,
                    blocked |-> closer' # closer]
    /\ UNCHANGED <<codecVars, socksVars, cfgVars, planVars, queueVars, envVars, timeVars, storageVars, sigVars, chanVars,
                   histVars>>

SessionNext ==
    \/ CallWritePeer \/ CallSendDatagram \/ CallClose
    \/ CloseEnd \/ WriteDrain \/ SendDrain

SpecSession == SessionSpecInit /\ [][SessionNext]_vars

(***************************************************************************)
(* Properties of the session                                               *)
(***************************************************************************)
\* C2: once close() has marked the session closed, every later writePeer and
\* sendDatagram returns the session-closed error and queues nothing, also
\* while the closing call is still waiting for the drainers.
C2_ClosedRejects ==
    (lastCall.op \in {"writePeer", "sendDatagram"} /\ lastCall.wasClosed)
        => (lastCall.err = "closed" /\ ~lastCall.changed)

\* a writePeer was refused while the closing call was still inside close()
C2_Witness ==
    /\ lastCall.op = "writePeer" /\ lastCall.wasClosed /\ lastCall.err = "closed"
    /\ closer = "caller" /\ sesPeer = "open" /\ Len(sesWrites) < queueSize

\* C3: close() is idempotent: the two queues are closed only by a call that
\* finds the session open, the call that closed them is the only one that
\* closes the peer and onClose, it does so once, and a call on a closed
\* session returns at once, without an error and without changing the session.
C3_CloseIdempotent ==
    [][/\ (closer' # closer /\ closer' # "none") => (~sesClosed /\ sesClosed')
       /\ (closer # "none" /\ closer' = "none")
            => (~sesOnClose /\ sesOnClose' /\ sesPeer # "closed")
       /\ (sesClosed => sesClosed') /\ (sesOnClose => sesOnClose')
       /\ (lastCall'.op = "close" /\ lastCall'.wasClosed)
            => (lastCall'.err = "nil" /\ ~lastCall'.changed /\ ~lastCall'.blocked)
      ]_vars

\* a second close() returned while the first was still waiting, and one
\* returned after the first had finished
C3_Witness ==
    /\ lastCall.op = "close" /\ lastCall.wasClosed /\ ~lastCall.changed
    /\ sesClosed /\ sesOnClose /\ closer = "none" /\ sesPeer = "closed"

(***************************************************************************)
(* SpecReaper: the first loop of clearSession over one open session.  The  *)
(* clock counts ticks of five seconds; a goroutine that is ready runs      *)
(* before the clock moves on.                                              *)
(***************************************************************************)
\* the clock stops here
MaxTime == 6

\* the values of session.timeout of the runs, in ticks; 0 is the zero of the
\* configuration
MaxTimeout == 3

\* time.Sleep(10 * time.Second) of the reaper, in ticks
reaperInterval == 2

ReaperInit ==
    /\ CodecOff /\ SocksOff /\ QueueInit /\ HistInit /\ StorageInit /\ SignalOff /\ ChanOff /\ PlanOff
    /\ queueSize = SmallQueueSize
    /\ timeout \in 0 .. MaxTimeout
    /\ remote = <<>> /\ peerChunks = 0
    /\ sessions = TRUE
    /\ sesClosed = FALSE
    /\ sesPeer = "open"
    /\ sesOnClose = FALSE
    /\ sesWrites = <<>> /\ sesDatagrams = <<>>
    /\ sesHistory = <<>>
    /\ sesNumber = 0
    /\ sesActivity = 0
    /\ closer = "none"
    /\ socks = "none" /\ localSent = 0 /\ peerLog = <<>> /\ carrier = <<>>
    /\ now = 0
    /\ reaperAt \in 1 .. reaperInterval
    /\ reaperGo = FALSE

\* five seconds pass; not while the reaper is due or the goroutine it
\* started has yet to call close()
Tick ==
    /\ now < MaxTime
    /\ now # reaperAt
    /\ ~(reaperGo /\ closer # "reaper")
    /\ now' = now + 1
    /\ UNCHANGED <<codecVars, socksVars, cfgVars, planVars, sesVars, queueVars, envVars, reaperAt, reaperGo,
                   storageVars, sigVars, chanVars, histVars, lastCall>>

\* the reaper wakes, starts a goroutine for the session if isInactive()
\* and sleeps again
ReaperWake ==
    /\ now = reaperAt
    /\ reaperGo' = (reaperGo \/ isInactive)
    /\ reaperAt' = now + reaperInterval
    /\ UNCHANGED <<codecVars, socksVars, cfgVars, planVars, sesVars, queueVars, envVars, now, storageVars, sigVars, chanVars,
                   histVars, lastCall>>

\* the goroutine the reaper started calls ses.close()
ReaperClose ==
    /\ reaperGo /\ closer # "reaper"
    /\ closeBegin("reaper")
    /\ reaperGo' = ~sesClosed
    /\ UNCHANGED <<codecVars, socksVars, cfgVars, planVars, queueVars, envVars, now, reaperAt, storageVars, sigVars, chanVars,
                   received, arrivals, expiries, timerFires, lastCall>>

ReaperNext ==
    \/ Tick \/ ReaperWake \/ ReaperClose
    \/ CallWritePeer \/ CallSendDatagram
    \/ CloseEnd \/ WriteDrain \/ SendDrain

SpecReaper == ReaperInit /\ [][ReaperNext]_vars

\* the time since the last writePeer or sendDatagram on the session
idle == now - sesActivity

\* the claim as stated, for every session.timeout
C8_ReapedInTime == (sessions /\ ~sesClosed) => idle <= timeout + reaperInterval

\* C8: with session.timeout > 0, an open session on which neither writePeer
\* nor sendDatagram has been called is marked closed no later than
\* session.timeout plus one reaper interval after its last activity; with
\* session.timeout = 0 isInactive() is never true and the reaper leaves the
\* session open.
C8_ReapedInTimeIfSet ==
    (sessions /\ ~sesClosed /\ timeout > 0) => idle <= timeout + reaperInterval

\* the reaper closed a session exactly one timeout and one interval after
\* its last activity, which was a call later than the opening
C8_Witness ==
    /\ timeout > 0 /\ sesClosed /\ closer = "reaper"
    /\ sesActivity > 0 /\ idle = timeout + reaperInterval

(***************************************************************************)
(* SpecLoopback: the long poll and the storage watcher hand updates to     *)
(* handleUpdate and handleStorageUpdate while the handler queue runs.      *)
(* This process is the exit side; the session table is empty at first.     *)
(***************************************************************************)
\* the carriers hand at most this many updates over
MaxUpdates == 2

\* the 10 * time.Second of decideStorageNamespace, in ticks
storageDebounce == 2

\* what this process sent on the session and now sees on a carrier
loopDatagram(k) == newDatagram(deviceID, sessionID, k, commandForward, <<96 + k>>)

\* the datagrams on the carriers, each with the alphabet it was written in:
\* this process's own, the remote stream, and the captions of both sides
loopSent ==
    {[dg |-> loopDatagram(1), enc |-> datagramEncodingASCII],
     [dg |-> loopDatagram(2), enc |-> datagramEncodingRU]}

remoteSent ==
    {[dg |-> remoteStream("exit")[k], enc |-> datagramEncodingASCII] : k \in 1..MaxNumber}

captionSent ==
    {[dg |-> newDatagram(dev, 0, 0, 0, <<>>), enc |-> datagramEncodingASCII] :
        dev \in {deviceID, remoteDevice}}

encodedText ==
    [m \in loopSent \cup remoteSent \cup captionSent |-> encodeDatagram(m.dg, m.enc)]

textsOf(ms) == {encodedText[m] : m \in ms}

\* a text that is no datagram
junkText == <<33, 33, 33>>

LoopTexts == textsOf(loopSent)

Texts == textsOf(loopSent \cup remoteSent) \cup {junkText}

Captions ==
    {<<>>} \cup textsOf(captionSent \cup {[dg |-> loopDatagram(1), enc |-> datagramEncodingASCII]})

\* decodeDatagram of every text and caption of the runs
decodedText ==
    [t \in textsOf(loopSent \cup remoteSent \cup captionSent) \cup {junkText} |->
        decodeDatagram(t)]

\* handleEncoded after decodeDatagram returned r
dropLoopback(r) ==
    IF r.err # "nil" THEN [err |-> r.err, dg |-> zeroDatagram]
    ELSE IF isLoopback(r.dg) THEN [err |-> "nil", dg |-> zeroDatagram]
    ELSE r

handleEncoded(s) == dropLoopback(decodedText[s])

\* what shouldHandlePhoto and shouldHandleDoc return for the result r of
\* handleEncoded(caption)
notZero(r) == r.err # "nil" \/ ~isZero(r.dg)

shouldHandlePhoto(caption) == caption = <<>> \/ notZero(handleEncoded(caption))

\* the caption is the query parameter of the URL
shouldHandleDoc(caption) == caption = <<>> \/ notZero(handleEncoded(caption))

\* sort.Slice by number, for datagrams of distinct numbers
RECURSIVE sortByNumber(_)
sortByNumber(dgs) ==
    IF dgs = <<>> THEN <<>>
    ELSE LET least == CHOOSE i \in DOMAIN dgs :
                         \A j \in DOMAIN dgs : dgs[i].number <= dgs[j].number
         IN  <<dgs[least]>>
             \o sortByNumber([j \in 1..(Len(dgs) - 1) |->
                                 IF j < least THEN dgs[j] ELSE dgs[j + 1]])

\* the datagrams of a sequence of results
datagramsIn(rs) == [i \in DOMAIN rs |-> rs[i].dg]

\* handlePhoto after decodeQR has read the texts, rs being what
\* handleEncoded returns for them: nothing if one of them is an error, else
\* the datagrams that are not zero, sorted
handlePhoto(rs) ==
    IF \E i \in DOMAIN rs : rs[i].err # "nil" THEN <<>>
    ELSE sortByNumber(datagramsIn(SelectSeq(rs, LAMBDA r : ~isZero(r.dg))))

\* handleUpdate, lines 96 to 106: the datagram of one text, none for an
\* error and for the zero datagram
oneDatagram(r) == IF r.err # "nil" \/ isZero(r.dg) THEN <<>> ELSE <<r.dg>>

\* handleUpdate of a storage_change update: the value is the encoded datagram
storageChange(rs) == oneDatagram(rs[1])

\* handleUpdate up to line 107, rs being what handleEncoded returns for the
\* texts of the update
carried(upd, rs) ==
    CASE upd.via = "text" -> oneDatagram(rs[1])
      [] upd.via = "photo" ->
            IF shouldHandlePhoto(upd.caption) THEN handlePhoto(rs) ELSE <<>>
      [] upd.via = "doc" ->
            IF shouldHandleDoc(upd.caption) THEN oneDatagram(rs[1]) ELSE <<>>
      [] upd.via = "storage" -> storageChange(rs)

\* the datagrams handleUpdate hands to handleDatagram
datagramsOf(upd) ==
    carried(upd, [i \in DOMAIN upd.texts |-> handleEncoded(upd.texts[i])])

\* decideStorageNamespace goes on to a decision: the window is over (the zero
\* time.Time is -1), the value decodes and is not this process's own
decides(r) ==
    /\ storageNamespaceChangedAt = -1 \/ now - storageNamespaceChangedAt >= storageDebounce
    /\ r.err = "nil"
    /\ ~isLoopback(r.dg)

\* the namespace for an interlocutor: storageNamespaceA, storageNamespaceB
\* or storageNamespaceUnknown
namespaceFor(interlocutor) ==
    IF deviceID < interlocutor THEN 2
    ELSE IF deviceID > interlocutor THEN 3
    ELSE 1

\* decideStorageNamespace(value), r being decodeDatagram(value)
decideStorageNamespace(r) ==
    IF decides(r)
    THEN /\ storageNamespace' = namespaceFor(r.dg.device)
         /\ storageNamespaceChangedAt' = now
    ELSE UNCHANGED <<storageNamespace, storageNamespaceChangedAt>>

\* the text of the datagram numbered k of the remote stream
remoteText(k) == encodedText[[dg |-> remoteStream("exit")[k], enc |-> datagramEncodingASCII]]

\* what decodeQR reads from one photo: one text, an own datagram beside a
\* remote one, or two remote ones out of order
PhotoTexts ==
    {<<t>> : t \in Texts}
        \cup {<<l, remoteText(1)>> : l \in LoopTexts}
        \cup {[k \in 1..2 |-> remoteText(3 - k)]}

\* the updates the long poll can bring
LongPollUpdates ==
    {[via |-> "text", caption |-> <<>>, texts |-> <<t>>] : t \in Texts}
        \cup {[via |-> "doc", caption |-> c, texts |-> <<t>>] : c \in Captions, t \in Texts}
        \cup {[via |-> "photo", caption |-> c, texts |-> ts] :
                 c \in Captions, ts \in PhotoTexts}

\* a result of decodeDatagram that is a datagram of this process
ownDatagram(r) == r.err = "nil" /\ r.dg.device = deviceID

\* every text the update carries decodes to a datagram of this process
loopbackOnly(upd) ==
    upd.texts # <<>> /\ \A i \in DOMAIN upd.texts : ownDatagram(decodedText[upd.texts[i]])

numbersOf(dgs) == [i \in DOMAIN dgs |-> dgs[i].number]

\* handleUpdate from line 108 for the datagrams dgs of the update upd
deliver(upd, dgs, own) ==
    /\ handleDatagrams(dgs)
    /\ arrivals' = arrivals \o numbersOf(dgs)
    /\ received' = [n |-> received.n + 1, via |-> upd.via, own |-> own]

\* the goroutine of listenLongPoll runs handleUpdate(cfg, upd)
HandleUpdate ==
    /\ received.n < MaxUpdates
    /\ \E upd \in LongPollUpdates : deliver(upd, datagramsOf(upd), loopbackOnly(upd))
    /\ UNCHANGED <<codecVars, socksVars, cfgVars, planVars, envVars, timeVars, storageVars, sigVars, chanVars, accepted,
                   expiries, timerFires, lastCall>>

\* the update handleStorageUpdate makes of a value
storageUpdate(value) == [via |-> "storage", caption |-> <<>>, texts |-> <<value>>]

\* the goroutine of listenStorage runs handleStorageUpdate(cfg, club, value)
HandleStorageUpdate ==
    /\ received.n < MaxUpdates
    /\ \E upd \in {storageUpdate(value) : value \in Texts} :
         /\ decideStorageNamespace(decodedText[upd.texts[1]])
         /\ deliver(upd, datagramsOf(upd), loopbackOnly(upd))
    /\ UNCHANGED <<codecVars, socksVars, cfgVars, planVars, envVars, timeVars, sigVars, chanVars, accepted,
                   expiries, timerFires, lastCall>>

LoopbackInit ==
    /\ CodecOff /\ SocksOff /\ QueueInit /\ HistInit /\ StorageInit /\ SignalOff /\ ChanOff /\ PlanOff
    /\ now = 0 /\ reaperAt = -1 /\ reaperGo = FALSE
    /\ queueSize = sessionQueueSize
    /\ timeout = 0
    /\ peerChunks = 0
    /\ remote = remoteStream("exit")
    /\ SessionInit("exit")

LoopbackNext ==
    \/ HandleUpdate \/ HandleStorageUpdate \/ Tick
    \/ OnSignal \/ Merge \/ Dispatch \/ HandleReturn
    \/ OnClose \/ StopSend \/ StopClose \/ CloseEnd \/ QueueClose
    \/ SocksEnd \/ WriteDrain \/ SendDrain

SpecLoopback == LoopbackInit /\ [][LoopbackNext]_vars

\* C5: an update that carries only datagrams with the local device-id, on
\* any carrier (text, QR photo, document URL, storage value), leaves the
\* session table, the session, the handler queue and the storage-namespace
\* decision as they were.
C5_LoopbackIgnored ==
    [][(received'.n = received.n + 1 /\ received'.own)
           => UNCHANGED <<sesVars, queueVars, storageVars, sigVars, chanVars, arrivals>>]_vars

\* the storage brought a datagram of this process after a remote one had
\* decided the namespace and the debounce window had passed, while the
\* session and its queue were open
C5_Witness ==
    /\ received.n = MaxUpdates /\ received.via = "storage" /\ received.own
    /\ storageNamespace = 2
    /\ now - storageNamespaceChangedAt >= storageDebounce
    /\ sessions /\ ~sesClosed /\ queues /\ ~qClosed

(***************************************************************************)
(* SpecDecode: a text that stands for any frame, well-formed or not, is    *)
(* put on a carrier and handed to decodeDatagram                           *)
(***************************************************************************)
\* the frames are cut to the lengths 0 .. MaxCut - 1 and to the header less
\* one byte
MaxCut == 3

\* at most this many zero groups are appended to a frame
MaxPad == 2

\* the frames: of each datagram the frame itself, the frame with one byte of
\* its checksum field changed, the frame cut short, and the frame with zero
\* bytes appended after the checksum was written
Frames ==
    LET dgs == {newDatagram(remoteDevice, ses, num, cmd, pld) :
                    ses \in {0, sessionID}, num \in {0, 1},
                    cmd \in {commandConnect, commandClose},
                    pld \in {<<>>, <<7>>, DataGroup}}
        otherSum(f, i) == [f EXCEPT ![2 + i] = (@ + 1) % 256]
        zeros[n \in 0..MaxPad] == IF n = 0 THEN <<>> ELSE ZeroWord \o zeros[n - 1]
        framesOf(f) ==
            {f}
                \cup {otherSum(f, i) : i \in 1..4}
                \cup {SubSeq(f, 1, k) : k \in (0..(MaxCut - 1)) \cup {datagramHeaderLen - 1}}
                \cup {f \o zeros[n] : n \in 1..MaxPad}
    IN  UNION {framesOf(datagramFrame(dg)) : dg \in dgs}

DecodeInit ==
    /\ cpc = "frame"
    /\ frame \in Frames
    /\ dgIn = zeroDatagram
    /\ encIn \in {datagramEncodingASCII, datagramEncodingRU}
    /\ encoded = <<>>
    /\ decoded = noResult
    /\ SocksOff /\ QueueInit /\ HistInit /\ TimeOff /\ StorageInit /\ SignalOff /\ ChanOff /\ PlanOff
    /\ queueSize = sessionQueueSize /\ timeout = 0
    /\ remote = <<>> /\ peerChunks = 0
    /\ SessionInit("exit")

\* the frame is written as text in one of the two alphabets
FrameEncode ==
    /\ cpc = "frame"
    /\ encoded' = base85Encode(frame, encIn)
    /\ cpc' = "encoded"
    /\ UNCHANGED <<frame, dgIn, encIn, decoded>>
    /\ UNCHANGED <<socksVars, cfgVars, planVars, sesVars, queueVars, envVars, timeVars, storageVars, sigVars, chanVars,
                   histVars, lastCall>>

DecodeNext == FrameEncode \/ CodecDecode

SpecDecode == DecodeInit /\ [][DecodeNext]_vars

\* the frame is shorter than the header, or its checksum field is not the
\* CRC32 of the frame with that field zeroed
badFrame(f) ==
    \/ Len(f) < datagramHeaderLen
    \/ SubSeq(f, 3, 6) # ChecksumIEEE([i \in 1..Len(f) |-> IF i \in 3..6 THEN 0 ELSE f[i]])

\* C11: decodeDatagram returns the Malformed error and no datagram for every
\* text whose frame is shorter than the 24-byte header or carries a checksum
\* that differs from the CRC32 over the frame with the checksum field zeroed.
C11_BadFrameMalformed ==
    (cpc = "decoded" /\ badFrame(frame))
        => (decoded.err = "malformed" /\ decoded.dg = zeroDatagram)

(***************************************************************************)
(* The SOCKS state machine: the stages of readSocks                        *)
(***************************************************************************)
stageHandshake == 1
stageConnectV4 == 2
stageConnectV5 == 3
stageConnectSession == 4
stageForward == 5

\* net.IP(ip).String() of a 4-byte address: the text a.b.c.d.  The text of a
\* 16-byte address is not modelled: it is kept as its bytes, and no input of
\* the model carries one in full
ipString(ip) ==
    LET decimal(b) ==
            IF b < 10 THEN <<48 + b>>
            ELSE IF b < 100 THEN <<48 + (b \div 10), 48 + (b % 10)>>
            ELSE <<48 + (b \div 100), 48 + ((b \div 10) % 10), 48 + (b % 10)>>
    IN  IF Len(ip) = 4
        THEN decimal(ip[1]) \o <<46>> \o decimal(ip[2]) \o <<46>> \o decimal(ip[3])
                 \o <<46>> \o decimal(ip[4])
        ELSE ip

\* a handleStageHandshakeV5 that takes any list of methods
handshakeAnyMethod(in) ==
    IF Len(in) < 2 THEN [out |-> <<>>, err |-> "partial"]
    ELSE IF in[1] # 5 THEN [out |-> <<>>, err |-> "unacceptable"]
    ELSE IF Len(in) < 2 + in[2] THEN [out |-> <<>>, err |-> "partial"]
    ELSE [out |-> <<5, 0>>, err |-> "nil"]

\* handleStageHandshakeV5(in): the reply and the error
handleStageHandshakeV5(in) ==
    IF Len(in) < 2 THEN [out |-> <<>>, err |-> "partial"]
    ELSE IF in[1] # 5 THEN [out |-> <<>>, err |-> "unacceptable"]
    ELSE IF Len(in) < 2 + in[2] THEN [out |-> <<>>, err |-> "partial"]
    ELSE IF \E i \in 3..(2 + in[2]) : in[i] = 0 THEN [out |-> <<5, 0>>, err |-> "nil"]
    ELSE [out |-> <<5, 255>>, err |-> "unsupported"]

\* a handleStageConnectV4 that takes the user-id for the host
connectV4UserID(in) ==
    IF Len(in) < 9 THEN [addr |-> noAddr, out |-> <<>>, err |-> "partial"]
    ELSE IF in[1] # 4 THEN [addr |-> noAddr, out |-> <<>>, err |-> "unacceptable"]
    ELSE IF in[2] # 1 THEN [addr |-> noAddr, out |-> <<>>, err |-> "unsupported"]
    ELSE LET ip == SubSeq(in, 5, 8)
             nulls(i) == Cardinality({j \in 9..(i - 1) : in[j] = 0})
             rune(b) == IF b < 128 THEN <<b>> ELSE <<192 + (b \div 64), 128 + (b % 64)>>
             chars[i \in 8..Len(in)] ==
                 IF i = 8 THEN <<>>
                 ELSE IF in[i] # 0 /\ nulls(i) = 0 THEN chars[i - 1] \o rune(in[i])
                 ELSE chars[i - 1]
             named == ip[1] = 0 /\ ip[2] = 0 /\ ip[3] = 0 /\ ip[4] # 0
                         /\ chars[Len(in)] # <<>>
         IN  [addr |-> [host |-> IF named THEN chars[Len(in)] ELSE ipString(ip),
                        port |-> FromBigEndian(SubSeq(in, 3, 4))],
              out |-> <<0, 90>> \o SubSeq(in, 3, 8),
              err |-> "nil"]

\* handleStageConnectV4(in): the address, the reply and the error.  For an
\* address 0.0.0.x the host is made of the non-zero bytes after the first
\* zero byte of in[8:] and before the second, each byte taken as a rune
handleStageConnectV4(in) ==
    IF Len(in) < 9 THEN [addr |-> noAddr, out |-> <<>>, err |-> "partial"]
    ELSE IF in[1] # 4 THEN [addr |-> noAddr, out |-> <<>>, err |-> "unacceptable"]
    ELSE IF in[2] # 1 THEN [addr |-> noAddr, out |-> <<>>, err |-> "unsupported"]
    ELSE LET ip == SubSeq(in, 5, 8)
             nulls(i) == Cardinality({j \in 9..(i - 1) : in[j] = 0})
             rune(b) == IF b < 128 THEN <<b>> ELSE <<192 + (b \div 64), 128 + (b % 64)>>
             chars[i \in 8..Len(in)] ==
                 IF i = 8 THEN <<>>
                 ELSE IF in[i] # 0 /\ nulls(i) = 1 THEN chars[i - 1] \o rune(in[i])
                 ELSE chars[i - 1]
             named == ip[1] = 0 /\ ip[2] = 0 /\ ip[3] = 0 /\ ip[4] # 0
                         /\ chars[Len(in)] # <<>>
         IN  [addr |-> [host |-> IF named THEN chars[Len(in)] ELSE ipString(ip),
                        port |-> FromBigEndian(SubSeq(in, 3, 4))],
              out |-> <<0, 90>> \o SubSeq(in, 3, 8),
              err |-> "nil"]

\* handleStageConnectV5(in): the address, the reply and the error
handleStageConnectV5(in) ==
    IF Len(in) < 5 THEN [addr |-> noAddr, out |-> <<>>, err |-> "partial"]
    ELSE IF in[1] # 5 THEN [addr |-> noAddr, out |-> <<>>, err |-> "unacceptable"]
    ELSE IF in[2] # 1 THEN [addr |-> noAddr, out |-> <<>>, err |-> "unsupported"]
    ELSE IF in[4] \notin {1, 3, 4} THEN [addr |-> noAddr, out |-> <<>>, err |-> "unsupported"]
    ELSE LET atyp == in[4]
             naddr == IF atyp = 1 THEN 4 ELSE IF atyp = 3 THEN in[5] ELSE 16
             offset == IF atyp = 3 THEN 5 ELSE 4
         IN  IF Len(in) < offset + naddr + 2
             THEN [addr |-> noAddr, out |-> <<>>, err |-> "partial"]
             ELSE LET baddr == SubSeq(in, offset + 1, offset + naddr)
                  IN  [addr |-> [host |-> IF atyp = 3 THEN baddr ELSE ipString(baddr),
                                 port |-> FromBigEndian(SubSeq(in, offset + naddr + 1,
                                                        offset + naddr + 2))],
                       out |-> [in EXCEPT ![2] = 0],
                       err |-> "nil"]

(***************************************************************************)
(* SpecSocks: one connection of the local application.  listenSocks has    *)
(* opened the session, installed the peer and started acceptSocks at       *)
(* stageHandshake; readSocks and forwardsSocks run side by side,           *)
(* listenDatagrams drains session.datagrams, and another goroutine (the    *)
(* reaper, the handler of an inbound CLOSE) may close the session at any   *)
(* time.  Nothing arrives from the remote side.                            *)
(***************************************************************************)
\* the host name of the requests
hostName == <<101, 120, 97, 109, 112, 108, 101, 46, 99, 111, 109>>

\* what the local application sends in one piece: greetings, SOCKS4 and
\* SOCKS5 requests, whole and cut short, and requests the code refuses
SocksInputs ==
    {<<5>>, <<5, 2, 0>>, <<5, 1, 0>>, <<5, 2, 0, 2>>, <<5, 1, 2>>, <<5, 2, 1, 2>>,
     <<4, 1, 1, 187, 0, 0, 0, 1, 0>> \o hostName \o <<0>>,
     <<4, 1, 1, 187, 0, 0, 0, 1, 117, 0>> \o hostName \o <<0>>,
     <<4, 1, 1, 187, 0, 0, 0, 1, 0>> \o hostName,
     <<4, 1, 1, 187, 0, 0, 0, 9, 0>>,
     <<4, 1, 0, 80, 10, 0, 0, 1, 0>>,
     <<4, 1, 0, 80, 0, 0, 0, 0, 0>>,
     <<4, 1, 0, 80>>,
     <<4, 2, 0, 80, 10, 0, 0, 1, 0>>,
     <<5, 1, 0, 1, 10, 0, 0, 1, 0, 80>>,
     <<5, 1, 0, 3, 11>> \o hostName \o <<1, 187>>,
     <<5, 1, 0, 3, 11>> \o hostName,
     <<5, 2, 0, 1, 10, 0, 0, 1, 0, 80>>,
     <<5, 1, 0, 9, 0>>,
     <<5, 1, 0, 4, 0, 0>>}

\* what the local application sends once it is connected
SocksData == {<<71>>, <<72, 73>>}

\* at most this many bytes wait in fwdBuf
MaxFwdBuf == 2

\* payloadConnect.encode(); the encryption with the session key that follows
\* it in handleStageConnectSession is not modelled
payloadConnect(a) == a.host \o BigEndian(a.port, 2)

SocksInit ==
    /\ CodecOff /\ QueueInit /\ HistInit /\ TimeOff /\ StorageInit /\ SignalOff /\ ChanOff /\ PlanOff
    /\ queueSize = 1 /\ timeout = 0
    /\ remote = <<>> /\ peerChunks = 0
    /\ sessions = TRUE
    /\ sesClosed = FALSE
    /\ sesPeer = "open"
    /\ sesOnClose = FALSE
    /\ sesWrites = <<>> /\ sesDatagrams = <<>>
    /\ sesHistory = <<>>
    /\ sesNumber = 0
    /\ sesActivity = 0
    /\ closer = "none"
    /\ socks = "running" /\ localSent = 0 /\ peerLog = <<>> /\ carrier = <<>>
    /\ stage = stageHandshake /\ sockIn = <<>> /\ sockOut = <<>> /\ addr = noAddr
    /\ readErr = "running" /\ fwdBuf = <<>> /\ fwdErr = "running" /\ fwdChunks = <<>>
    /\ fwdStop = FALSE /\ fwdRead = <<>>
    /\ forwardSize = 0

\* a readSocks that goes on reading after errPartialRead
readSocksAgain(in, ok) ==
    LET st0 == IF stage = stageHandshake /\ in[1] = 4 THEN stageConnectV4 ELSE stage
        r == IF st0 = stageHandshake
                 THEN [addr |-> noAddr] @@ handleStageHandshakeV5(in)
             ELSE IF st0 = stageConnectV4 THEN handleStageConnectV4(in)
             ELSE IF st0 = stageConnectV5 THEN handleStageConnectV5(in)
             ELSE [addr |-> noAddr, out |-> <<>>, err |-> "nil"]
        st1 == IF st0 = stageHandshake THEN stageConnectV5
               ELSE IF st0 \in {stageConnectV4, stageConnectV5} /\ r.err = "nil"
                   THEN stageConnectSession
               ELSE st0
        connects == st1 = stageConnectSession
        err == IF connects THEN sendDatagramErr ELSE r.err
        written == r.out # <<>> /\ ok
    IN  /\ IF connects
           THEN sendDatagram(newDatagram(deviceID, 0, 0, commandConnect,
                                         payloadConnect(r.addr)))
           ELSE UNCHANGED <<sesVars, accepted>>
        /\ stage' = IF connects /\ err = "nil" THEN stageForward ELSE st1
        /\ fwdBuf' = IF st1 = stageForward THEN fwdBuf \o in ELSE fwdBuf
        /\ fwdRead' = IF st1 = stageForward THEN fwdRead \o in ELSE fwdRead
        /\ sockIn' = in
        /\ addr' = r.addr
        /\ sockOut' = IF written THEN Append(sockOut, r.out) ELSE sockOut
        /\ readErr' = IF err \notin {"nil", "partial"} THEN err
                      ELSE IF r.out # <<>> /\ ~ok THEN "io"
                      ELSE "running"

\* one turn of the loop of readSocks in which Read returned the bytes `in`;
\* ok tells whether the write of the reply by writeSocks succeeds
readSocks(in, ok) ==
    LET st0 == IF stage = stageHandshake /\ in[1] = 4 THEN stageConnectV4 ELSE stage
        r == IF st0 = stageHandshake
                 THEN [addr |-> noAddr] @@ handleStageHandshakeV5(in)
             ELSE IF st0 = stageConnectV4 THEN handleStageConnectV4(in)
             ELSE IF st0 = stageConnectV5 THEN handleStageConnectV5(in)
             ELSE [addr |-> noAddr, out |-> <<>>, err |-> "nil"]
        st1 == IF st0 = stageHandshake THEN stageConnectV5
               ELSE IF st0 \in {stageConnectV4, stageConnectV5} /\ r.err = "nil"
                   THEN stageConnectSession
               ELSE st0
        connects == st1 = stageConnectSession
        err == IF connects THEN sendDatagramErr ELSE r.err
        written == r.out # <<>> /\ ok
    IN  /\ IF connects
           THEN sendDatagram(newDatagram(deviceID, 0, 0, commandConnect,
                                         payloadConnect(r.addr)))
           ELSE UNCHANGED <<sesVars, accepted>>
        /\ stage' = IF connects /\ err = "nil" THEN stageForward ELSE st1
        /\ fwdBuf' = IF st1 = stageForward THEN fwdBuf \o in ELSE fwdBuf
        /\ fwdRead' = IF st1 = stageForward THEN fwdRead \o in ELSE fwdRead
        /\ sockIn' = in
        /\ addr' = r.addr
        /\ sockOut' = IF written THEN Append(sockOut, r.out) ELSE sockOut
        /\ readErr' = IF err # "nil" THEN err
                      ELSE IF r.out # <<>> /\ ~ok THEN "io"
                      ELSE "running"

\* readSocks reads from the peer: bytes arrive and are handled, or the
\* application has hung up (io.EOF: readSocks returns nil), or the read
\* fails (the deadline has passed, the socket is closed)
SocksRead ==
    /\ socks \in {"running", "failed", "ending"} /\ readErr = "running"
    /\ \/ /\ sesPeer = "open"
          /\ stage = stageForward =>
                 /\ Len(fwdBuf) < MaxFwdBuf
                 /\ sesNumber + Len(sesDatagrams) < MaxNumber
          /\ \E in \in IF stage = stageForward THEN SocksData ELSE SocksInputs :
                \E ok \in BOOLEAN : readSocks(in, ok)
       \/ /\ \E e \in {"nil", "io"} :
                /\ e = "nil" => sesPeer = "open"
                /\ readErr' = e
          /\ UNCHANGED <<stage, sockIn, sockOut, addr, fwdBuf, fwdRead, sesVars, accepted>>
    /\ UNCHANGED <<fwdErr, fwdChunks, fwdStop, socks, localSent, peerLog, carrier>>
    /\ UNCHANGED <<codecVars, cfgVars, planVars, queueVars, timeVars, storageVars, sigVars, chanVars, arrivals,
                   expiries, timerFires, received, lastCall>>

\* one turn of the loop of forwardsSocks that finds bytes in fwdBuf or finds
\* fwdBuf.done closed: the bytes go to handleStageForward, which hands them
\* to sendDatagram as one FORWARD (they fit cfg.Socks.ForwardSize); an error
\* ends the loop, and so does fwdBuf.done
SocksForward ==
    /\ socks = "running" /\ fwdErr = "running"
    /\ \E stop \in BOOLEAN :
          /\ stop => readErr # "running"
          /\ fwdBuf # <<>> \/ stop
          /\ IF fwdBuf # <<>>
             THEN /\ sendDatagram(newDatagram(deviceID, 0, 0, commandForward, fwdBuf))
                  /\ fwdErr' = IF sendDatagramErr # "nil" THEN sendDatagramErr
                               ELSE IF stop THEN "nil" ELSE "running"
                  /\ socks' = IF sendDatagramErr # "nil" THEN "failed" ELSE socks
             ELSE /\ UNCHANGED <<sesVars, accepted, socks>>
                  /\ fwdErr' = "nil"
    /\ fwdBuf' = <<>>
    /\ UNCHANGED <<fwdChunks, fwdStop, fwdRead, stage, sockIn, sockOut, addr, readErr, localSent,
                   peerLog, carrier>>
    /\ UNCHANGED <<codecVars, cfgVars, planVars, queueVars, timeVars, storageVars, sigVars, chanVars, arrivals,
                   expiries, timerFires, received, lastCall>>

\* handleSocks: both goroutines have returned, wg.Wait() is over and
\* handleSocks returns to acceptSocks, whose deferred ses.close() runs
SocksReturn ==
    /\ socks \in {"running", "ending"}
    /\ readErr # "running" /\ fwdErr # "running"
    /\ closeBegin("socks")
    /\ socks' = IF sesClosed THEN "done" ELSE "closing"
    /\ UNCHANGED <<localSent, peerLog, carrier>>
    /\ UNCHANGED <<codecVars, socksVars, cfgVars, planVars, queueVars, timeVars, storageVars, sigVars, chanVars, arrivals,
                   expiries, timerFires, received, lastCall>>

SocksNext ==
    \/ SocksRead \/ SocksForward \/ SocksPeerClose \/ SocksReturn
    \/ CallClose \/ CloseEnd \/ SendDrain

SpecSocks == SocksInit /\ [][SocksNext]_vars

\* the step is a turn of readSocks that handles the bytes `in`
readsBytes(in) == readErr = "running" /\ \E ok \in BOOLEAN : readSocks(in, ok)

\* the bytes are too short to be parsed in stage st
tooShort(st, in) ==
    IF st = stageConnectV4 \/ (st = stageHandshake /\ in[1] = 4) THEN Len(in) < 9
    ELSE IF st = stageHandshake THEN Len(in) < 2 \/ (in[1] = 5 /\ Len(in) < 2 + in[2])
    ELSE /\ st = stageConnectV5
         /\ \/ Len(in) < 5
            \/ /\ in[1] = 5 /\ in[2] = 1 /\ in[4] \in {1, 3, 4}
               /\ Len(in) < (IF in[4] = 1 THEN 10 ELSE IF in[4] = 3 THEN 7 + in[5] ELSE 22)

closeEmitted ==
    \/ \E i \in DOMAIN sesDatagrams : sesDatagrams[i].command = commandClose
    \/ \E fg \in DOMAIN carrier : fg.command = commandClose

\* C13: when sendDatagram fails with QueueFull on the SOCKS forward path, the
\* failure is only reported: the session stays open, the peer socket is not
\* closed and no CLOSE datagram is emitted (no other goroutine has called
\* close()).
C13_QueueFullNotFatal ==
    (fwdErr = "full" /\ lastCall = noCall)
        => (~sesClosed /\ sesPeer = "open" /\ ~closeEmitted)

\* the local application has received a SOCKS5 reply to a request (VER 05,
\* REP 00: succeeded)
succeeded5 ==
    \E i \in DOMAIN sockOut :
        Len(sockOut[i]) > 2 /\ sockOut[i][1] = 5 /\ sockOut[i][2] = 0

\* C15: when the CONNECT of a SOCKS5 request cannot be handed to the session
\* (handleStageConnectSession fails), the local application never receives a
\* reply with status 00 for that request.
C15_NoSuccessOnFailure ==
    (stage = stageConnectSession /\ sockIn[1] = 5 /\ readErr \in {"closed", "full"})
        => ~succeeded5

\* C16: whenever the SOCKS state machine of a session has ended with an error
\* (a request that is not acceptable or not supported, a read or write error)
\* after its CONNECT has gone out, and the session has been closed, a CLOSE
\* datagram of the session has been sent to the remote side.
C16_ErrorSendsClose ==
    (socks = "done" /\ lastCall = noCall
            /\ readErr \in {"unacceptable", "unsupported", "io"}
            /\ \E fg \in DOMAIN carrier : fg.command = commandConnect)
        => \E fg \in DOMAIN carrier : fg.command = commandClose

\* the bytes are a complete SOCKS5 greeting: VER 05, NMETHODS, METHODS
greeting(in) == Len(in) >= 2 /\ in[1] = 5 /\ Len(in) >= 2 + in[2]

\* the METHODS of the greeting contain 00 (no authentication)
offersNoAuth(in) == \E i \in 3..(2 + in[2]) : in[i] = 0

\* what the step has written to the local application
replied == IF sockOut' = sockOut THEN <<>> ELSE sockOut'[Len(sockOut')]

\* C17: in the HANDSHAKE stage a complete SOCKS5 greeting whose METHODS contain
\* 00 is answered with 05 00 and the stage becomes CONNECT-V5; a complete
\* greeting without 00 is answered with 05 FF and the connection fails; a
\* first byte 04 is handled in the CONNECT-V4 stage and no greeting reply is
\* written.  (A reply is written unless the write to the socket fails, which
\* ends the connection.)
C17_Greeting ==
    [][\A in \in SocksInputs :
          (stage = stageHandshake /\ readsBytes(in)) =>
              /\ (greeting(in) /\ offersNoAuth(in)) =>
                     /\ stage' = stageConnectV5
                     /\ \/ replied = <<5, 0>> /\ readErr' = "running"
                        \/ replied = <<>> /\ readErr' = "io"
              /\ (greeting(in) /\ ~offersNoAuth(in)) =>
                     /\ readErr' = "unsupported"
                     /\ replied \in {<<5, 255>>, <<>>}
              /\ in[1] = 4 =>
                     /\ stage' \in {stageConnectV4, stageConnectSession, stageForward}
                     /\ replied = <<>> \/ replied[1] # 5
                     /\ readErr' = "partial" <=> Len(in) < 9]_vars

\* the greeting 05 02 00 02 has been answered with 05 00 and the state
\* machine waits for the request
C17_Witness ==
    /\ sockIn = <<5, 2, 0, 2>> /\ sockOut = <<<<5, 0>>>>
    /\ stage = stageConnectV5 /\ readErr = "running"

\* the bytes are a SOCKS4 CONNECT request: VN 04, CD 01, port, IP, a user-id
\* ending at the first zero byte z1 and, for an IP 0.0.0.x, a host name of at
\* least one byte ending at the next zero byte z2
named4(in) == in[5] = 0 /\ in[6] = 0 /\ in[7] = 0 /\ in[8] # 0

zeroAfter(in, k) ==
    IF \E i \in (k + 1)..Len(in) : in[i] = 0
    THEN CHOOSE i \in (k + 1)..Len(in) : in[i] = 0 /\ \A j \in (k + 1)..(i - 1) : in[j] # 0
    ELSE 0

request4(in) ==
    /\ Len(in) >= 9 /\ in[1] = 4 /\ in[2] = 1
    /\ zeroAfter(in, 8) # 0
    /\ named4(in) => zeroAfter(in, zeroAfter(in, 8)) > zeroAfter(in, 8) + 1

\* the text of the IP addresses of the requests
ipText ==
    (<<10, 0, 0, 1>> :> <<49, 48, 46, 48, 46, 48, 46, 49>>)
        @@ (<<0, 0, 0, 0>> :> <<48, 46, 48, 46, 48, 46, 48>>)

GapNumber == 2

\* at most this many datagrams are staged in q.temp
MaxTemp == 2

GapInit ==
    /\ CodecOff /\ SocksOff /\ QueueInit /\ HistInit /\ TimeOff /\ StorageInit /\ SignalOff /\ ChanOff /\ PlanOff
    /\ queueSize = sessionQueueSize
    /\ timeout = 0
    /\ remote = remoteStream("entry")
    /\ peerChunks = 0
    /\ SessionInit("entry")

\* a carrier delivers a datagram other than the lost one: an earlier one
\* once, a later one any number of times
ArriveOther ==
    /\ Len(qTemp) < MaxTemp
    /\ \E n \in DOMAIN remote \ {GapNumber} :
         /\ n < GapNumber =>
                /\ qNext <= n /\ n \notin DOMAIN qData
                /\ \A i \in DOMAIN qTemp : qTemp[i].number # n
         /\ handleDatagrams(<<remote[n]>>)
    /\ UNCHANGED <<codecVars, socksVars, cfgVars, planVars, envVars, timeVars, storageVars, sigVars, chanVars, histVars,
                   lastCall>>

\* listen(): the retry timer fires (time.After of this turn of the loop) and
\* retry() runs
GapTimer ==
    /\ lpc = "select"
    /\ retry
    /\ UNCHANGED timerFires

GapNext ==
    \/ ArriveOther \/ OnSignal \/ Merge \/ Dispatch \/ HandleReturn
    \/ GapTimer \/ StopSend \/ StopClose \/ CloseEnd \/ QueueClose
    \/ WriteDrain \/ SendDrain

\* every goroutine that can take a step takes it in the end; the timer fires
\* if listen() stays in its select; nothing is asked of the carriers
GapFair ==
    /\ WF_vars(OnSignal) /\ WF_vars(Merge) /\ WF_vars(Dispatch) /\ WF_vars(HandleReturn)
    /\ WF_vars(GapTimer) /\ WF_vars(StopSend) /\ WF_vars(StopClose) /\ WF_vars(CloseEnd)
    /\ WF_vars(QueueClose) /\ WF_vars(WriteDrain) /\ WF_vars(SendDrain)

SpecGap == GapInit /\ [][GapNext]_vars /\ GapFair

\* a RETRY for the datagram q.next is queued or has been handed to a carrier
retryEmitted ==
    \/ \E i \in DOMAIN sesDatagrams :
          /\ sesDatagrams[i].command = commandRetry
          /\ retryNumber(sesDatagrams[i].payload) = qNext
    \/ \E fg \in DOMAIN carrier :
          fg.command = commandRetry /\ retryNumber(fg.payload) = qNext

\* C19: when the datagram with the expected number never arrives at the
\* handler queue of an open session, the queue eventually emits RETRY for
\* that number and eventually closes the session, however many datagrams
\* with higher numbers keep arriving.
C19_GapRetriedAndClosed ==
    /\ (queues /\ qNext = GapNumber) ~> retryEmitted
    /\ (queues /\ qNext = GapNumber) ~> sesClosed
(***************************************************************************)
(* The sending side of the session: createPlan, executePlan and the        *)
(* carrier calls                                                           *)
(***************************************************************************)
methodMessage == 1
methodPost == 2
methodComment == 3
methodDoc == 4
methodQR == 5
methodStorage == 6
methodDescription == 7
methodWebsite == 8
methodVideoComment == 9
methodPhotoComment == 10

\* qrMaxLen by level: qrLevelLow (0) .. qrLevelHighest (3)
qrMaxLen == <<2953, 2331, 1663, 1273>>

\* initSession: methodsEnabled
methodsEnabled(m) ==
    IF m \in {methodQR, methodVideoComment, methodPhotoComment} THEN ~unauthorized
    ELSE TRUE

\* initSession: methodsMaxLenEncoded
methodsMaxLenEncoded(m) ==
    CASE m = methodMessage -> 4096
      [] m = methodPost -> 16000
      [] m = methodComment -> 16000
      [] m = methodDoc -> 1 * 1024 * 1024
      [] m = methodQR -> qrMaxLen[qrImageLevel + 1]
      [] m = methodStorage -> 4096
      [] m = methodDescription -> 2800
      [] m = methodWebsite -> 175
      [] m = methodVideoComment -> 4096
      [] m = methodPhotoComment -> 2048

\* A FORWARD payload of the sending side is a slice of the bytes the local
\* application has written: [off, len] stands for the bytes off ..
\* off + len - 1 of that stream (a Go slice is a pointer and a length).
sliceOf(off, len) == [off |-> off, len |-> len]

\* datagram.Len() of a datagram whose payload is a slice
datagramLen(dg) == datagramHeaderLen + dg.payload.len

\* datagram.LenEncoded() of a datagram whose payload is a slice
LenEncoded(dg) == 5 * ((datagramLen(dg) + 3) \div 4)

\* newDatagram(0, 0, 0, nil).LenEncoded()
datagramHeaderLenEncoded == 5 * ((datagramHeaderLen + 3) \div 4)

\* datagramCalcMaxLen: int(4 * maxLenEncoded / 5) for a multiple of five,
\* else the ceiling of 4 * maxLenEncoded / 5 - 4
datagramCalcMaxLen(maxLenEncoded) ==
    IF maxLenEncoded % 5 = 0 THEN (4 * maxLenEncoded) \div 5
    ELSE (4 * maxLenEncoded - 20 + 4) \div 5

\* initSession: methodsMaxLenPayload
methodsMaxLenPayload(m) ==
    datagramCalcMaxLen(methodsMaxLenEncoded(m) - datagramHeaderLenEncoded)

minOf(a, b) == IF a < b THEN a ELSE b

\* a bytesToChunks that does not merge the chunks from the count-th on
chunkRangesUnmerged(n, size, count) ==
    IF size = 0 \/ count = 1 THEN <<[start |-> 0, end |-> n]>>
    ELSE LET k == (n + size - 1) \div size
         IN  [i \in 1..k |-> [start |-> (i - 1) * size, end |-> minOf(i * size, n)]]

\* bytesToChunks(b, size, count) for a b of n bytes, as index ranges
\* b[start:end]: the chunks of `size` bytes, the chunks from the count-th
\* on merged into one
chunkRanges(n, size, count) ==
    IF size = 0 \/ count = 1 THEN <<[start |-> 0, end |-> n]>>
    ELSE LET k == (n + size - 1) \div size
             chunks == [i \in 1..k |->
                           [start |-> (i - 1) * size, end |-> minOf(i * size, n)]]
         IN  IF count > 0 /\ k > count - 1
             THEN [i \in 1..count |->
                      IF i < count THEN chunks[i]
                      ELSE [start |-> chunks[count].start, end |-> chunks[k].end]]
             ELSE chunks

\* bytesToChunks of a byte sequence
bytesToChunks(b, size, count) ==
    LET r == chunkRanges(Len(b), size, count)
    IN  [i \in DOMAIN r |-> SubSeq(b, r[i].start + 1, r[i].end)]

\* bytesToChunks of a slice
sliceToChunks(p, size, count) ==
    LET r == chunkRanges(p.len, size, count)
    IN  [i \in DOMAIN r |-> sliceOf(p.off + r[i].start, r[i].end - r[i].start)]

\* the elements of a sequence: what randElem can return
elems(s) == {s[i] : i \in DOMAIN s}

\* a small set that holds methodStorage for every command
smallMethodsStorage(dg) ==
    <<methodMessage, methodPost>>
        \o (IF methodsEnabled(methodQR) THEN <<methodQR>> ELSE <<>>)
        \o (IF methodsEnabled(methodVideoComment) THEN <<methodVideoComment>> ELSE <<>>)
        \o (IF methodsEnabled(methodPhotoComment) THEN <<methodPhotoComment>> ELSE <<>>)
        \o (IF posts # {} THEN <<methodComment, methodComment>> ELSE <<>>)
        \o <<methodStorage, methodStorage>>

\* createPlan, lines 695 to 720: the methods for a datagram that fits one
\* small fragment
smallMethods(dg) ==
    <<methodMessage, methodPost>>
        \o (IF methodsEnabled(methodQR) THEN <<methodQR>> ELSE <<>>)
        \o (IF methodsEnabled(methodVideoComment) THEN <<methodVideoComment>> ELSE <<>>)
        \o (IF methodsEnabled(methodPhotoComment) THEN <<methodPhotoComment>> ELSE <<>>)
        \o (IF posts # {} THEN <<methodComment, methodComment>> ELSE <<>>)
        \o (IF dg.command # commandConnect THEN <<methodStorage, methodStorage>> ELSE <<>>)

bigMethods == <<methodDoc>>

maxSmallForwardLen ==
    minOf(methodsMaxLenEncoded(methodQR), methodsMaxLenEncoded(methodPhotoComment))

\* createPlan, line 727
fitsSmall(dg) == dg.command # commandForward \/ LenEncoded(dg) <= maxSmallForwardLen

\* a plan: the methods, the fragments, the error and session.number after it
planOf(ms, fgs, err, num) == [methods |-> ms, fragments |-> fgs, err |-> err, number |-> num]

\* createPlan, lines 759 to 788, with method the big method of every turn:
\* the payload is cut into two chunks, the first becomes a fragment with the
\* next number, the loop goes on with the second
RECURSIVE planChunks(_, _, _, _, _)
planChunks(dg, payload, method, num, acc) ==
    IF payload.len = 0 THEN planOf(acc.methods, acc.fragments, "nil", num)
    ELSE LET chunks == sliceToChunks(payload, methodsMaxLenPayload(method), 2)
             fg == newDatagram(deviceID, dg.session, num + 1, dg.command, chunks[1])
         IN  IF Len(chunks) = 0 \/ Len(chunks) > 2
             THEN planOf(<<>>, <<>>, "unexpected chunks logic", num)
             ELSE IF LenEncoded(fg) > methodsMaxLenEncoded(method)
             THEN planOf(<<>>, <<>>, "unexpected payload logic", num + 1)
             ELSE IF Len(acc.methods) + 1 > 1000
             THEN planOf(<<>>, <<>>, "infinite loop protection", num + 1)
             ELSE planChunks(dg,
                             IF Len(chunks) = 2 THEN chunks[2] ELSE sliceOf(0, 0),
                             method, num + 1,
                             [methods |-> Append(acc.methods, method),
                              fragments |-> Append(acc.fragments, fg)])

\* the big methods a numbered datagram fits (createPlan, lines 740 to 746)
availableMethods(dg) ==
    SelectSeq(bigMethods, LAMBDA m : LenEncoded(dg) <= methodsMaxLenEncoded(m))

\* a createPlan that takes a new number for every datagram, numbered or not
createPlanAnew(dg) ==
    IF fitsSmall(dg)
    THEN {planOf(<<m>>, <<[dg EXCEPT !.number = sesNumber + 1]>>, "nil", sesNumber + 1) :
             m \in elems(smallMethods(dg))}
    ELSE {planChunks(dg, dg.payload, m, sesNumber,
                     [methods |-> <<>>, fragments |-> <<>>]) : m \in elems(bigMethods)}

\* createPlan(dg): the plans it can return, one for each choice of randElem
createPlan(dg) ==
    IF fitsSmall(dg)
    THEN {planOf(<<m>>, <<fragmentOf(dg)>>, "nil",
                 IF dg.number = 0 THEN sesNumber + 1 ELSE sesNumber) :
             m \in elems(smallMethods(dg))}
    ELSE IF dg.number # 0
    THEN IF availableMethods(dg) = <<>>
         THEN {planOf(<<>>, <<>>, "no methods available", sesNumber)}
         ELSE {planOf(<<m>>, <<dg>>, "nil", sesNumber) : m \in elems(availableMethods(dg))}
    ELSE {planChunks(dg, dg.payload, m, sesNumber,
                     [methods |-> <<>>, fragments |-> <<>>]) : m \in elems(bigMethods)}

(***************************************************************************)
(* SpecPlan: callers hand datagrams to sendDatagram, listenDatagrams plans *)
(* them and starts the carrier calls, each of which succeeds or fails; a   *)
(* failed fragment is asked for again (RETRY) and resent from the history. *)
(* Another goroutine may close the session at any time.                    *)
(***************************************************************************)
\* the callers hand datagrams over until this many numbers are taken
MaxPlanned == 1

\* at most this many carrier calls fail
MaxFailed == 1

\* cfg.Clubs
Clubs == {"club1"}

\* a goroutine beside listenDatagrams calls nextNumber() this many times
MaxOtherCalls == 2

\* the goroutines that call nextNumber()
Callers == {"listenDatagrams", "other"}

\* the offset in the application's stream of the bytes to forward
PlanOffset == 7

\* the lengths of the payloads to forward: one that fits a small method, one
\* that takes two documents
PlanLens == {1, 1048576}

\* the datagrams the callers hand over: q.send, handleStageConnectSession
\* and handleStageForward make them without a number
PlanDatagrams ==
    {newDatagram(deviceID, 0, 0, commandConnect, connectPayload)}
        \cup {newDatagram(deviceID, 0, 0, commandForward, sliceOf(PlanOffset, n)) :
                 n \in PlanLens}

PlanInit ==
    /\ CodecOff /\ SocksOff /\ QueueInit /\ HistInit /\ TimeOff /\ StorageInit /\ SignalOff /\ ChanOff
    /\ queueSize = MaxPlanned /\ timeout = 0
    /\ remote = <<>> /\ peerChunks = 0
    /\ unauthorized \in BOOLEAN
    /\ qrImageLevel = 0
    /\ sessions = TRUE /\ sesClosed = FALSE /\ sesPeer = "open" /\ sesOnClose = FALSE
    /\ sesWrites = <<>> /\ sesDatagrams = <<>> /\ sesHistory = <<>>
    /\ sesNumber = 0 /\ sesActivity = 0 /\ closer = "none"
    /\ socks = "none" /\ localSent = 0 /\ peerLog = <<>> /\ carrier = <<>>
    /\ posts = {} /\ planIn = zeroDatagram /\ plan = noPlan
    /\ workers = {} /\ failed = <<>>
    /\ returned = [c \in Callers |-> <<>>]
    /\ stores = <<>>

\* the numbers lo + 1 .. hi in order
numbersFrom(lo, hi) == [i \in 1..(hi - lo) |-> lo + i]

\* a nextNumber() that returns the number it found
nextNumberBefore(c) ==
    /\ sesNumber' = sesNumber + 1
    /\ returned' = [returned EXCEPT ![c] = Append(@, sesNumber)]

\* session.nextNumber() called by c, under session.mu
nextNumber(c) ==
    /\ sesNumber' = sesNumber + 1
    /\ returned' = [returned EXCEPT ![c] = Append(@, sesNumber + 1)]

\* a goroutine beside listenDatagrams calls nextNumber()
CallNextNumber ==
    /\ Len(returned["other"]) < MaxOtherCalls
    /\ nextNumber("other")
    /\ UNCHANGED <<sessions, sesClosed, sesPeer, sesOnClose, sesWrites, sesDatagrams,
                   sesHistory, sesActivity, closer>>
    /\ UNCHANGED <<posts, planIn, plan, workers, failed, stores>>
    /\ UNCHANGED <<codecVars, socksVars, cfgVars, queueVars, envVars, timeVars,
                   storageVars, sigVars, chanVars, histVars, lastCall>>

\* a caller hands a fresh datagram to sendDatagram
PlanSend ==
    /\ sesNumber + Len(sesDatagrams) < MaxPlanned
    /\ \E dg \in PlanDatagrams : sendDatagram(dg)
    /\ UNCHANGED planVars
    /\ UNCHANGED <<codecVars, socksVars, cfgVars, queueVars, envVars, timeVars,
                   storageVars, sigVars, chanVars, arrivals, expiries, timerFires, received, lastCall>>

\* the fragments whose carrier call failed and that have not reached a
\* carrier since and are neither queued nor with a carrier call now
lost ==
    {failed[i].fg : i \in DOMAIN failed}
        \ (DOMAIN carrier
              \cup {sesDatagrams[i] : i \in DOMAIN sesDatagrams}
              \cup UNION {{w.fgs[j] : j \in DOMAIN w.fgs} : w \in workers})

\* handleRetry: the remote side asks for a fragment again and it is handed
\* to sendDatagram as the history has it
PlanResend ==
    /\ \E fg \in lost :
          /\ fg.number \in DOMAIN sesHistory
          /\ sendDatagram(sesHistory[fg.number])
    /\ UNCHANGED planVars
    /\ UNCHANGED <<codecVars, socksVars, cfgVars, queueVars, envVars, timeVars,
                   storageVars, sigVars, chanVars, arrivals, expiries, timerFires, received, lastCall>>

\* a listenDatagrams that leaves the history as it is
recordedNone(h, fgs) == h

\* listenDatagrams, lines 680 to 686: the fragments are put in the history
RECURSIVE recorded(_, _)
recorded(h, fgs) ==
    IF fgs = <<>> THEN h ELSE recorded((Head(fgs).number :> Head(fgs)) @@ h, Tail(fgs))

\* executePlan: one goroutine for each fragment of a method other than QR,
\* one goroutine for all fragments of method QR
executePlan(methods, fragments) ==
    LET call(i) == [method |-> methods[i], fgs |-> <<fragments[i]>>, phase |-> 1]
        others == SelectSeq([i \in DOMAIN methods |-> call(i)],
                            LAMBDA w : w.method # methodQR)
        qrs == SelectSeq(fragments,
                         LAMBDA fg : \E i \in DOMAIN methods :
                                        methods[i] = methodQR /\ fragments[i] = fg)
    IN  IF Len(methods) # Len(fragments) THEN <<>>
        ELSE others \o (IF qrs # <<>>
                        THEN <<[method |-> methodQR, fgs |-> qrs, phase |-> 1]>>
                        ELSE <<>>)

\* one turn of the loop of listenDatagrams: the next datagram is planned, the
\* fragments are recorded in the history and executePlan starts the carrier
\* calls; a datagram createPlan refuses is logged and dropped
PlanDrain ==
    /\ sessions
    /\ sesDatagrams # <<>>
    /\ LET dg == Head(sesDatagrams)
       IN  \E p \in createPlan(dg) :
              /\ sesNumber' = p.number
              /\ returned' = [returned EXCEPT !["listenDatagrams"] =
                                 @ \o numbersFrom(sesNumber, p.number)]
              /\ sesHistory' = IF p.err = "nil" THEN recorded(sesHistory, p.fragments)
                               ELSE sesHistory
              /\ workers' = IF p.err = "nil"
                            THEN workers \cup elems(executePlan(p.methods, p.fragments))
                            ELSE workers
    /\ sesDatagrams' = Tail(sesDatagrams)
    /\ UNCHANGED <<sessions, sesClosed, sesPeer, sesOnClose, sesWrites, sesActivity,
                   closer>>
    /\ UNCHANGED <<posts, planIn, plan, failed, stores>>
    /\ UNCHANGED <<codecVars, socksVars, cfgVars, queueVars, envVars, timeVars,
                   storageVars, sigVars, chanVars, histVars, lastCall>>

\* executeMethodDoc, lines 944 to 966: the methods for the message that
\* carries the URL of the document
docMethods ==
    <<methodMessage, methodPost, methodStorage, methodStorage, methodDescription,
      methodWebsite>>
        \o (IF methodsEnabled(methodQR) THEN <<methodQR>> ELSE <<>>)
        \o (IF methodsEnabled(methodVideoComment) THEN <<methodVideoComment>> ELSE <<>>)
        \o (IF methodsEnabled(methodPhotoComment) THEN <<methodPhotoComment>> ELSE <<>>)
        \o (IF posts # {} THEN <<methodComment, methodComment>> ELSE <<>>)

\* the carriers after one more copy of each fragment of fgs has reached them
RECURSIVE dispatchedAll(_, _)
dispatchedAll(c, fgs) ==
    IF fgs = <<>> THEN c
    ELSE dispatchedAll(IF Head(fgs) \in DOMAIN c
                       THEN [c EXCEPT ![Head(fgs)] = @ + 1]
                       ELSE (Head(fgs) :> 1) @@ c,
                       Tail(fgs))

\* the fragments of a carrier call, with its method and its phase
failuresOf(w) ==
    [i \in DOMAIN w.fgs |-> [fg |-> w.fgs[i], method |-> w.method, phase |-> w.phase]]

\* a goroutine of executePlan that closes the session when its call fails
carrierFailedCloses(w) ==
    /\ failed' = failed \o failuresOf(w)
    /\ workers' = workers \ {w}
    /\ sesClosed' = TRUE
    /\ UNCHANGED <<sessions, sesPeer, sesOnClose, sesWrites, sesDatagrams, sesHistory,
                   sesNumber, sesActivity, closer>>
    /\ UNCHANGED <<posts, carrier>>

\* the goroutine of executePlan whose call returned an error: the error is
\* logged and the goroutine ends
carrierFailed(w) ==
    /\ failed' = failed \o failuresOf(w)
    /\ workers' = workers \ {w}
    /\ UNCHANGED <<sessions, sesClosed, sesPeer, sesOnClose, sesWrites, sesDatagrams,
                   sesHistory, sesNumber, sesActivity, closer>>
    /\ UNCHANGED <<posts, carrier>>

\* the goroutine of executePlan whose call succeeded.  executeMethodDoc goes
\* on to its second call, with one of docMethods; executeMethodPost keeps
\* the post-id of the club; every other call has brought the fragments to
\* the carrier
carrierDone(w, club, second) ==
    /\ IF w.method = methodDoc /\ w.phase = 1
       THEN /\ workers' = (workers \ {w}) \cup {[w EXCEPT !.method = second, !.phase = 2]}
            /\ UNCHANGED <<posts, carrier>>
       ELSE /\ workers' = workers \ {w}
            /\ posts' = IF w.method = methodPost THEN posts \cup {club} ELSE posts
            /\ carrier' = dispatchedAll(carrier, w.fgs)
    /\ UNCHANGED failed
    /\ UNCHANGED <<sessions, sesClosed, sesPeer, sesOnClose, sesWrites, sesDatagrams,
                   sesHistory, sesNumber, sesActivity, closer>>

\* a carrier call returns: executeMethodComment fails without a post-id,
\* any call can fail at the carrier
CarrierCall ==
    /\ \E w \in workers :
          \E ok \in BOOLEAN :
             /\ (w.method = methodComment /\ posts = {}) => ~ok
             /\ IF ok
                THEN \E club \in Clubs : \E second \in elems(docMethods) :
                        carrierDone(w, club, second)
                ELSE /\ Len(failed) < MaxFailed
                     /\ carrierFailed(w)
    /\ UNCHANGED <<planIn, plan, returned, stores>>
    /\ UNCHANGED <<codecVars, socksVars, cfgVars, queueVars, socks, localSent, peerLog,
                   timeVars, storageVars, sigVars, chanVars, histVars, lastCall>>

PlanNext ==
    \/ PlanSend \/ PlanResend \/ PlanDrain \/ CarrierCall
    \/ CallClose \/ CloseEnd

SpecPlan == PlanInit /\ [][PlanNext]_vars

(***************************************************************************)
(* SpecNumber: listenDatagrams plans the datagrams handed over while       *)
(* another goroutine calls nextNumber() too                                *)
(***************************************************************************)
NumberNext == PlanSend \/ PlanDrain \/ CallNextNumber

SpecNumber == PlanInit /\ [][NumberNext]_vars

\* a step in which a carrier call fails
carrierFails == Len(failed') > Len(failed)

\* C21: a failing carrier call (any method, the second call of a document
\* upload included) leaves the session as it is: it is not closed, its two
\* queues, its peer and its sequence counter do not change, and the fragment
\* stays in the history, from where a RETRY can have it resent.
C21_CarrierFailureKeepsSession ==
    [][/\ carrierFails =>
             UNCHANGED <<sesClosed, sesOnClose, sesPeer, sesWrites, sesDatagrams,
                         sesNumber, sesHistory, closer>>
       /\ \A i \in DOMAIN failed' :
             /\ failed'[i].fg.number \in DOMAIN sesHistory'
             /\ sesHistory'[failed'[i].fg.number] = failed'[i].fg]_vars

\* the second call of a document upload has failed, the session is open and
\* the fragment has been resent from the history and has reached a carrier
C21_Witness ==
    /\ ~sesClosed
    /\ \E i \in DOMAIN failed :
          /\ failed[i].phase = 2
          /\ failed[i].fg \in DOMAIN carrier

\* the numbers nextNumber() has returned to caller c, as a set
returnedTo(c) == {returned[c][i] : i \in DOMAIN returned[c]}

\* the fragments createPlan has made: those in the history and those with a
\* carrier call
fragmentsMade ==
    {sesHistory[n] : n \in DOMAIN sesHistory}
        \cup UNION {{w.fgs[j] : j \in DOMAIN w.fgs} : w \in workers}

\* C25: whatever the interleaving of its callers, nextNumber() has returned
\* the numbers 1 .. session.number, each to one caller and once, in
\* increasing order for each caller and never 0; two distinct fragments of
\* the session never carry the same number.
C25_NumbersUnique ==
    /\ \A c \in Callers :
          \A i \in DOMAIN returned[c] :
             /\ returned[c][i] >= 1
             /\ \A j \in DOMAIN returned[c] : i < j => returned[c][i] < returned[c][j]
    /\ UNION {returnedTo(c) : c \in Callers} = 1..sesNumber
    /\ \A c, d \in Callers : c # d => returnedTo(c) \cap returnedTo(d) = {}
    /\ \A f, g \in fragmentsMade : f # g => f.number # g.number
    /\ \A f \in fragmentsMade : f.number \in returnedTo("listenDatagrams")

\* another goroutine has taken a number between the queueing and the
\* planning of a FORWARD that takes two documents
C25_Witness ==
    /\ returned["other"] = <<1>>
    /\ returned["listenDatagrams"] = <<2, 3>>
    /\ Cardinality(fragmentsMade) = 2

(***************************************************************************)
(* SpecDispatch: the session of the entry side under any delivery of a     *)
(* remote stream whose second datagram is a CLOSE or carries an unknown    *)
(* command, with more datagrams behind it                                  *)
(***************************************************************************)
DispatchSides == {"closing", "unknown"}

DispatchInit ==
    /\ CodecOff /\ SocksOff /\ QueueInit /\ HistInit /\ TimeOff /\ StorageInit /\ SignalOff /\ ChanOff /\ PlanOff
    /\ queueSize = sessionQueueSize
    /\ timeout = 0
    /\ \E side \in DispatchSides :
         /\ remote = remoteStream(side)
         /\ peerChunks = IF side = "unknown" THEN MaxLocalSends ELSE 0
         /\ SessionInit(side)

SpecDispatch == DispatchInit /\ [][TunnelNext]_vars

\* the CLOSE of the remote stream has been dispatched
closeDispatched ==
    \E k \in DOMAIN remote :
       /\ remote[k].command = commandClose
       /\ qNext > k \/ (qNext = k /\ lpc = "closewait")

\* a CLOSE datagram is on its way to the remote side
closeOut ==
    \/ \E i \in DOMAIN sesDatagrams : sesDatagrams[i].command = commandClose
    \/ \E fg \in DOMAIN carrier : fg.command = commandClose

\* C22: once a received CLOSE has been dispatched the session is closed
\* locally and no CLOSE datagram is queued or handed to a carrier, also when
\* datagrams with higher numbers are in the handler queue and are dispatched
\* after it.
C22_CloseNotAnswered == closeDispatched => (sesClosed /\ ~closeOut)

\* the RETRY behind the CLOSE was in the queue, was dispatched after the
\* CLOSE and failed on the closed session, and the listener has returned
C22_Witness ==
    /\ closeDispatched
    /\ qNext \in DOMAIN qData /\ qData[qNext].command = commandRetry
    /\ lpc = "return"
    /\ timerFires = 0

\* the datagram the listener is at carries none of the four commands
unknownAtHead ==
    /\ qNext \in DOMAIN qData
    /\ qData[qNext].command \notin {commandConnect, commandForward, commandClose, commandRetry}

\* C23: a dispatched datagram with a command other than CONNECT, FORWARD,
\* CLOSE or RETRY makes handleCommand return an error that stops the
\* listener and leaves the session alone; the listener then hands a CLOSE to
\* sendDatagram, which queues it on the open session, and closes the
\* session; q.next stays at that datagram, so none behind it is dispatched.
C23_UnknownCommandCloses ==
    [][unknownAtHead =>
          /\ (lpc = "handle" /\ lpc' # lpc) =>
                 /\ lpc' = "stop"
                 /\ UNCHANGED <<sesVars, accepted, qNext>>
          /\ (lpc = "stop" /\ lpc' # lpc /\ ~sesClosed) =>
                 /\ lpc' = "stopclose"
                 /\ sesDatagrams' =
                        Append(sesDatagrams,
                               newDatagram(deviceID, sessionID, 0, commandClose, <<>>))
                 /\ ~sesClosed'
          /\ (lpc = "stopclose" /\ lpc' # lpc) => sesClosed'
          /\ (lpc = "stopwait" /\ lpc' # lpc) =>
                 (sesOnClose' /\ sesPeer' = "closed" /\ lpc' = "return")
          /\ qData' # <<>> => (qNext' = qNext /\ accepted' = accepted)]_vars

\* the unknown command has stopped the listener while a later datagram was
\* in the queue: the CLOSE has reached a carrier, the session is closed and
\* the listener has returned without dispatching the later datagram
C23_Witness ==
    /\ unknownAtHead
    /\ qNext + 1 \in DOMAIN qData
    /\ lpc = "return" /\ sesClosed /\ sesOnClose
    /\ timerFires = 0 /\ socks = "running"
    /\ \E fg \in DOMAIN carrier : fg.command = commandClose /\ fg.session = sessionID

\* handleDatagram has put the session in the session table in this step
sessionAdded == ~sessions /\ sessions'

\* handleDatagram has opened a handler queue for a session that was not in
\* the session table
queueAdded == ~sessions /\ queues'

\* C24: a datagram for a session-id that is not in the session table adds a
\* session and a handler queue only when it is a CONNECT; a FORWARD, CLOSE or
\* RETRY for an unknown session-id creates neither.
C24_SessionOnlyOnConnect ==
    [][(sessionAdded \/ queueAdded) =>
          \A i \in DOMAIN qTemp' : qTemp'[i].command = commandConnect]_vars

(***************************************************************************)
(* SpecCreatePlan: createPlan applied to the datagrams listenDatagrams can *)
(* take from session.datagrams, under every configuration of the methods   *)
(***************************************************************************)
\* createPlan is applied while session.number is below this
MaxNumbered == 2

\* the largest payload of a FORWARD that fits the small methods
smallForwardLen == 4 * (maxSmallForwardLen \div 5) - datagramHeaderLen

\* the payload lengths of the FORWARD datagrams: around the limit of the
\* small methods and around one and two documents
ForwardLens ==
    {1, smallForwardLen, smallForwardLen + 1,
     methodsMaxLenPayload(methodDoc), methodsMaxLenPayload(methodDoc) + 1,
     2 * methodsMaxLenPayload(methodDoc), 2 * methodsMaxLenPayload(methodDoc) + 1}

\* the datagrams in session.datagrams: without a number from q.send,
\* handleStageConnectSession and handleStageForward, with their number from
\* handleRetry, which takes them from the history
CreatePlanInputs ==
    {newDatagram(deviceID, sessionID, 0, commandConnect, connectPayload),
     newDatagram(deviceID, sessionID, 0, commandClose, <<>>),
     newDatagram(deviceID, sessionID, 0, commandRetry, retryPayload(1))}
        \cup {newDatagram(deviceID, sessionID, 0, commandForward, sliceOf(PlanOffset, n)) :
                 n \in ForwardLens}
        \cup {sesHistory[n] : n \in DOMAIN sesHistory}

CreatePlanInit ==
    /\ CodecOff /\ SocksOff /\ QueueInit /\ HistInit /\ TimeOff /\ StorageInit /\ SignalOff /\ ChanOff
    /\ queueSize = sessionQueueSize /\ timeout = 0
    /\ remote = <<>> /\ peerChunks = 0
    /\ unauthorized \in BOOLEAN
    /\ qrImageLevel \in 0..3
    /\ posts \in SUBSET Clubs
    /\ sessions = TRUE /\ sesClosed = FALSE /\ sesPeer = "open" /\ sesOnClose = FALSE
    /\ sesWrites = <<>> /\ sesDatagrams = <<>> /\ sesHistory = <<>>
    /\ sesNumber = 0 /\ sesActivity = 0 /\ closer = "none"
    /\ socks = "none" /\ localSent = 0 /\ peerLog = <<>> /\ carrier = <<>>
    /\ planIn = zeroDatagram /\ plan = noPlan
    /\ workers = {} /\ failed = <<>> /\ returned = <<>>
    /\ stores = <<>>

\* listenDatagrams, lines 670 to 686: createPlan(dg) and the recording of
\* the fragments in the history
CreatePlan ==
    /\ sesNumber < MaxNumbered
    /\ \E dg \in CreatePlanInputs :
          \E p \in createPlan(dg) :
             /\ planIn' = dg
             /\ plan' = [methods |-> p.methods, fragments |-> p.fragments, err |-> p.err]
             /\ sesNumber' = p.number
             /\ sesHistory' = IF p.err = "nil" THEN recorded(sesHistory, p.fragments)
                              ELSE sesHistory
    /\ UNCHANGED <<sessions, sesClosed, sesPeer, sesOnClose, sesWrites, sesDatagrams,
                   sesActivity, closer>>
    /\ UNCHANGED <<posts, workers, failed, returned, stores>>
    /\ UNCHANGED <<codecVars, socksVars, cfgVars, queueVars, envVars, timeVars,
                   storageVars, sigVars, chanVars, histVars, lastCall>>

SpecCreatePlan == CreatePlanInit /\ [][CreatePlan]_vars

\* createPlan has been applied
planned == planIn # zeroDatagram

\* C26: for a datagram that is not a FORWARD the plan has one method and one
\* fragment; the fragment is the datagram, with the number createPlan has
\* just taken from the session when the datagram had none; the method is
\* enabled and in the small set, is not storage for a CONNECT and is comment
\* only when a post-id is known for some club.
C26_ControlPlan ==
    (planned /\ planIn.command # commandForward) =>
        /\ plan.err = "nil"
        /\ Len(plan.methods) = 1 /\ Len(plan.fragments) = 1
        /\ plan.fragments[1] =
               [planIn EXCEPT !.number = IF planIn.number = 0 THEN sesNumber ELSE @]
        /\ plan.fragments[1].number >= 1
        /\ plan.methods[1] \in {methodMessage, methodPost, methodQR, methodVideoComment,
                                methodPhotoComment, methodComment, methodStorage}
        /\ methodsEnabled(plan.methods[1])
        /\ planIn.command = commandConnect => plan.methods[1] # methodStorage
        /\ plan.methods[1] = methodComment => posts # {}

\* an unnumbered CONNECT has been planned with method comment, a post-id
\* being known
C26_Witness ==
    /\ planned /\ planIn.command = commandConnect /\ planIn.number = 0
    /\ plan.methods = <<methodComment>>
    /\ plan.fragments[1].number = 1

\* the fragments of the plan are consecutive pieces of payload p, in order
RECURSIVE piecesOf(_, _)
piecesOf(fgs, p) ==
    IF fgs = <<>> THEN p.len = 0
    ELSE /\ Head(fgs).payload.off = p.off
         /\ Head(fgs).payload.len >= 1 /\ Head(fgs).payload.len <= p.len
         /\ piecesOf(Tail(fgs),
                     sliceOf(p.off + Head(fgs).payload.len, p.len - Head(fgs).payload.len))

\* C27: for an unnumbered FORWARD that does not fit the small methods the
\* plan has no error and at least one fragment; the fragments carry the
\* numbers createPlan has just taken from the session, increasing by one in
\* chunk order; their payloads are consecutive pieces of the payload of the
\* datagram and cover it; the encoded length of each is at most the maximum
\* encoded length of its method.
C27_LargeForwardPlan ==
    (planned /\ planIn.command = commandForward /\ planIn.number = 0 /\ ~fitsSmall(planIn)) =>
        /\ plan.err = "nil"
        /\ Len(plan.fragments) >= 1 /\ Len(plan.methods) = Len(plan.fragments)
        /\ \A i \in DOMAIN plan.fragments :
              /\ plan.fragments[i].number = sesNumber - Len(plan.fragments) + i
              /\ plan.fragments[i].number >= 1
              /\ plan.fragments[i].command = commandForward
              /\ plan.fragments[i].session = planIn.session
              /\ LenEncoded(plan.fragments[i]) <= methodsMaxLenEncoded(plan.methods[i])
        /\ piecesOf(plan.fragments, planIn.payload)

\* a FORWARD of two documents' length and one byte has been planned as three
\* fragments
C27_Witness ==
    /\ planned /\ planIn.command = commandForward /\ planIn.number = 0
    /\ ~fitsSmall(planIn)
    /\ Len(plan.fragments) = 3
    /\ plan.fragments[3].payload.len = 1

(***************************************************************************)
(* SpecForward: the FORWARD stage of one SOCKS connection.  readSocks      *)
(* writes what it reads to fwdBuf; forwardsSocks takes the buffer, cuts it *)
(* into chunks of cfg.Socks.ForwardSize and hands them to sendDatagram one *)
(* by one, while listenDatagrams drains session.datagrams and another      *)
(* goroutine may close the session.                                        *)
(***************************************************************************)
\* cfg.Socks.ForwardSize is one of 1 .. MaxForwardSize
MaxForwardSize == 2

\* the SOCKS4 request the application has sent
forwardRequest == <<4, 1, 0, 80, 10, 0, 0, 1, 0>>

\* the state readSocks leaves when it has handled forwardRequest: the reply
\* is written, the CONNECT is in session.datagrams, the stage is
\* stageForward
ForwardInit ==
    /\ CodecOff /\ QueueInit /\ HistInit /\ TimeOff /\ StorageInit /\ SignalOff /\ ChanOff
    /\ queueSize = SmallQueueSize /\ timeout = 0
    /\ remote = <<>> /\ peerChunks = 0
    /\ unauthorized = FALSE /\ qrImageLevel = 0
    /\ forwardSize \in 1..MaxForwardSize
    /\ sessions = TRUE /\ sesClosed = FALSE /\ sesPeer = "open" /\ sesOnClose = FALSE
    /\ sesWrites = <<>>
    /\ sesDatagrams =
           <<newDatagram(deviceID, sessionID, 0, commandConnect,
                         payloadConnect(handleStageConnectV4(forwardRequest).addr))>>
    /\ sesHistory = <<>> /\ sesNumber = 0 /\ sesActivity = 0 /\ closer = "none"
    /\ socks = "running" /\ localSent = 0 /\ peerLog = <<>> /\ carrier = <<>>
    /\ stage = stageForward /\ sockIn = forwardRequest
    /\ sockOut = <<handleStageConnectV4(forwardRequest).out>>
    /\ addr = handleStageConnectV4(forwardRequest).addr
    /\ readErr = "running" /\ fwdBuf = <<>> /\ fwdErr = "running"
    /\ fwdChunks = <<>> /\ fwdStop = FALSE /\ fwdRead = <<>>
    /\ posts = {} /\ planIn = zeroDatagram /\ plan = noPlan
    /\ workers = {} /\ failed = <<>> /\ returned = <<>> /\ stores = <<>>

\* one turn of the loop of forwardsSocks up to the call of
\* handleStageForward: the select ends on fwdBuf.done (closed when readSocks
\* has returned) or on the timer, the buffer is taken and cut by
\* bytesToChunks(in, chunkSize, 0); with nothing to send and stop set the
\* function returns nil
ForwardTake ==
    /\ socks = "running" /\ fwdErr = "running" /\ fwdChunks = <<>>
    /\ \E stop \in BOOLEAN :
          /\ stop => readErr # "running"
          /\ fwdBuf # <<>> \/ stop
          /\ fwdStop' = stop
    /\ fwdChunks' = bytesToChunks(fwdBuf, forwardSize, 0)
    /\ fwdBuf' = <<>>
    /\ fwdErr' = IF fwdBuf = <<>> THEN "nil" ELSE "running"
    /\ UNCHANGED <<stage, sockIn, sockOut, addr, readErr, fwdRead>>
    /\ UNCHANGED <<sesVars, accepted, socks, localSent, peerLog, carrier>>
    /\ UNCHANGED <<codecVars, cfgVars, planVars, queueVars, timeVars, storageVars, sigVars, chanVars, arrivals,
                   expiries, timerFires, received, lastCall>>

\* one turn of the loop of handleStageForward: the next chunk goes to
\* sendDatagram as a FORWARD; an error ends handleStageForward and
\* forwardsSocks, the chunks not yet sent are dropped; after the last chunk
\* forwardsSocks returns nil when stop is set
forwardChunk ==
    LET err == sendDatagramErr
        last == Len(fwdChunks) = 1
    IN  /\ sendDatagram(newDatagram(deviceID, 0, 0, commandForward, Head(fwdChunks)))
        /\ fwdChunks' = IF err # "nil" THEN <<>> ELSE Tail(fwdChunks)
        /\ fwdErr' = IF err # "nil" THEN err
                     ELSE IF last /\ fwdStop THEN "nil" ELSE "running"
        /\ socks' = IF err # "nil" THEN "failed" ELSE socks

ForwardChunk ==
    /\ socks = "running" /\ fwdErr = "running" /\ fwdChunks # <<>>
    /\ forwardChunk
    /\ UNCHANGED <<stage, sockIn, sockOut, addr, readErr, fwdBuf, fwdStop, fwdRead>>
    /\ UNCHANGED <<localSent, peerLog, carrier>>
    /\ UNCHANGED <<codecVars, cfgVars, planVars, queueVars, timeVars, storageVars, sigVars, chanVars, arrivals,
                   expiries, timerFires, received, lastCall>>

ForwardNext ==
    \/ SocksRead \/ ForwardTake \/ ForwardChunk \/ SocksPeerClose \/ SocksReturn
    \/ CallClose \/ CloseEnd \/ SendDrain

SpecForward == ForwardInit /\ [][ForwardNext]_vars

\* the byte sequences of s, one after the other
RECURSIVE joined(_)
joined(s) == IF s = <<>> THEN <<>> ELSE Head(s) \o joined(Tail(s))

\* the FORWARD datagrams sendDatagram has accepted, in the order of the
\* calls: those listenDatagrams has numbered, then those in session.datagrams
forwards ==
    SelectSeq([n \in 1..sesNumber |-> sesHistory[n]] \o sesDatagrams,
              LAMBDA dg : dg.command = commandForward)

\* the bytes of the FORWARD datagrams, in that order
emitted == joined([i \in DOMAIN forwards |-> forwards[i].payload])

\* C28: on an open session every byte readSocks has read in the FORWARD
\* stage is in exactly one place, in read order: in a FORWARD datagram
\* handed to the session, in a chunk handleStageForward has yet to send, or
\* in fwdBuf; no FORWARD has more than cfg.Socks.ForwardSize bytes; and once
\* readSocks and forwardsSocks have both returned, every byte read is in a
\* FORWARD datagram.
C28_EveryByteForwarded ==
    /\ \A i \in DOMAIN forwards :
          Len(forwards[i].payload) >= 1 /\ Len(forwards[i].payload) <= forwardSize
    /\ ~sesClosed =>
          /\ emitted \o joined(fwdChunks) \o fwdBuf = fwdRead
          /\ (readErr # "running" /\ fwdErr # "running") => emitted = fwdRead

\* the same, for the runs in which no sendDatagram of the forwarder has found
\* session.datagrams full
forwardedUnlessFull == fwdErr # "full" => C28_EveryByteForwarded

\* three bytes were read in two reads and cut into three chunks; the reader
\* has stopped, the forwarder has sent the last chunk and returned nil
allForwarded ==
    /\ ~sesClosed /\ readErr = "nil" /\ fwdErr = "nil"
    /\ Len(fwdRead) = 3 /\ Len(forwards) = 3 /\ emitted = fwdRead

(***************************************************************************)
(* SpecStorage: two processes share the key-value storage of a club.  Each *)
(* has its own storageNamespace, storageNamespaceChangedAt and             *)
(* storageNextKey; its storage watcher hands every changed value to        *)
(* decideStorageNamespace, its carrier calls take keys from                *)
(* createStorageSetKey, and time passes.                                   *)
(***************************************************************************)
\* each process calls createStorageSetKey at most this many times
MaxSets == 1

storageNamespaceUnknown == 1
storageNamespaceA == 2
storageNamespaceB == 3

\* the two processes, by their device-id
Peers == {deviceID, remoteDevice}

\* the other process
peerOf(p) == IF p = deviceID THEN remoteDevice ELSE deviceID

\* a third process that writes to the same storage
thirdDevice == deviceID - 1

\* decodeDatagram(value) for the values a watcher can see: a datagram of one
\* of the three processes, or a value that is no datagram
StorageResults ==
    {[err |-> "nil", dg |-> newDatagram(dev, sessionID, 1, commandForward, <<>>)] :
        dev \in Peers \cup {thirdDevice}}
        \cup {[err |-> "malformed", dg |-> zeroDatagram]}

\* what rand.Intn(200) + 1 returns: the ends of the two ranges stand for
\* 1 .. 200
RandomKeys == {1, 100, 101, 200}

\* the variables of a process at start-up (the zero time.Time is -1); from
\* is the device-id the last decision was taken from and key the key the
\* process has written last since then, 0 for none; seen is the device-id of
\* the value the watcher has handed over last
storeAtStart ==
    [namespace |-> storageNamespaceUnknown, changedAt |-> -1, nextKey |-> 0,
     from |-> 0, key |-> 0, sets |-> 0, seen |-> 0]

\* the namespace process me takes for an interlocutor
namespaceOf(me, interlocutor) ==
    IF me < interlocutor THEN storageNamespaceA
    ELSE IF me > interlocutor THEN storageNamespaceB
    ELSE storageNamespaceUnknown

\* the variables of process p when it has decided from a datagram of the
\* other process at time 0 and has written all keys of its range
storeAtEnd(p) ==
    LET ns == namespaceOf(p, peerOf(p))
        last == IF ns = storageNamespaceA THEN 100 ELSE 200
    IN  [namespace |-> ns, changedAt |-> 0, nextKey |-> last + 1,
         from |-> peerOf(p), key |-> last, sets |-> 0, seen |-> peerOf(p)]

\* a decideStorageNamespace without the 10-second window
decidedAtOnce(st, me, r, t) ==
    IF r.err # "nil" \/ r.dg.device = me
    THEN st
    ELSE [st EXCEPT !.namespace = namespaceOf(me, r.dg.device),
                    !.changedAt = t,
                    !.from = r.dg.device,
                    !.key = 0]

\* decideStorageNamespace(value) in process me at time t, r being
\* decodeDatagram(value): the variables of the process after it
decided(st, me, r, t) ==
    IF st.changedAt # -1 /\ t - st.changedAt < storageDebounce
    THEN st
    ELSE IF r.err # "nil" \/ r.dg.device = me
    THEN st
    ELSE [st EXCEPT !.namespace = namespaceOf(me, r.dg.device),
                    !.changedAt = t,
                    !.from = r.dg.device,
                    !.key = 0]

\* a createStorageSetKey that does not bring storageNextKey back into the
\* range of the namespace
setKeyOn(st) ==
    IF st.namespace = storageNamespaceUnknown
    THEN {[st EXCEPT !.key = k, !.sets = @ + 1] : k \in RandomKeys}
    ELSE {[st EXCEPT !.key = st.nextKey, !.nextKey = st.nextKey + 1, !.sets = @ + 1]}

\* a createStorageSetKey that looks at the lower end of the range only
setKeyBelow(st) ==
    IF st.namespace = storageNamespaceUnknown
    THEN {[st EXCEPT !.key = k, !.sets = @ + 1] : k \in RandomKeys}
    ELSE LET next == IF st.namespace = storageNamespaceA /\ st.nextKey < 1 THEN 1
                     ELSE IF st.namespace = storageNamespaceB /\ st.nextKey < 101 THEN 101
                     ELSE st.nextKey
         IN  {[st EXCEPT !.key = next, !.nextKey = next + 1, !.sets = @ + 1]}

\* createStorageSetKey(): the variables of the process after it, key being
\* the number of the key returned
createStorageSetKey(st) ==
    IF st.namespace = storageNamespaceUnknown
    THEN {[st EXCEPT !.key = k, !.sets = @ + 1] : k \in RandomKeys}
    ELSE LET next == IF st.namespace = storageNamespaceA
                        /\ (st.nextKey < 1 \/ st.nextKey > 100)
                     THEN 1
                     ELSE IF st.namespace = storageNamespaceB
                        /\ (st.nextKey < 101 \/ st.nextKey > 200)
                     THEN 101
                     ELSE st.nextKey
         IN  {[st EXCEPT !.key = next, !.nextKey = next + 1, !.sets = @ + 1]}

StorageSpecInit ==
    /\ CodecOff /\ SocksOff /\ QueueInit /\ HistInit /\ StorageInit /\ SignalOff /\ ChanOff
    /\ now = 0 /\ reaperAt = -1 /\ reaperGo = FALSE
    /\ queueSize = sessionQueueSize /\ timeout = 0
    /\ remote = <<>> /\ peerChunks = 0
    /\ unauthorized = FALSE /\ qrImageLevel = 0
    /\ sessions = FALSE /\ sesClosed = FALSE /\ sesPeer = "nil" /\ sesOnClose = FALSE
    /\ sesWrites = <<>> /\ sesDatagrams = <<>> /\ sesHistory = <<>>
    /\ sesNumber = 0 /\ sesActivity = 0 /\ closer = "none"
    /\ socks = "none" /\ localSent = 0 /\ peerLog = <<>> /\ carrier = <<>>
    /\ posts = {} /\ planIn = zeroDatagram /\ plan = noPlan
    /\ workers = {} /\ failed = <<>> /\ returned = <<>>
    /\ stores \in [Peers -> {storeAtStart}]
                      \cup {[p \in Peers |-> storeAtEnd(p)]}

\* listenStorage of process p: a changed value goes to
\* decideStorageNamespace
StorageObserve ==
    /\ \E p \in Peers : \E r \in StorageResults :
          stores' = [stores EXCEPT ![p] = [decided(@, p, r, now) EXCEPT
                                              !.seen = r.dg.device]]
    /\ UNCHANGED <<posts, planIn, plan, workers, failed, returned>>
    /\ UNCHANGED <<codecVars, socksVars, cfgVars, sesVars, queueVars, envVars, timeVars,
                   storageVars, sigVars, chanVars, histVars, lastCall>>

\* executeMethodStorage of process p takes a key from createStorageSetKey
StorageSet ==
    /\ \E p \in Peers :
          /\ stores[p].sets < MaxSets
          /\ \E st \in createStorageSetKey(stores[p]) :
                stores' = [stores EXCEPT ![p] = st]
    /\ UNCHANGED <<posts, planIn, plan, workers, failed, returned>>
    /\ UNCHANGED <<codecVars, socksVars, cfgVars, sesVars, queueVars, envVars, timeVars,
                   storageVars, sigVars, chanVars, histVars, lastCall>>

StorageNext == StorageObserve \/ StorageSet \/ Tick

SpecStorage == StorageSpecInit /\ [][StorageNext]_vars

\* process p has taken its last decision from a datagram of the other
\* process and has written a key since
wroteAfterPeer(p) == stores[p].from = peerOf(p) /\ stores[p].key # 0

\* C29: a process that has decided its namespace from a datagram of the
\* other process writes only keys 1 .. 100 when its device-id is the lower
\* and only keys 101 .. 200 when it is the higher, so two such processes
\* never write the same key.
C29_DisjointKeys ==
    /\ \A p \in Peers :
          wroteAfterPeer(p) =>
              IF p < peerOf(p) THEN stores[p].key \in 1..100
              ELSE stores[p].key \in 101..200
    /\ (\A p \in Peers : wroteAfterPeer(p)) =>
          stores[deviceID].key # stores[remoteDevice].key

\* both processes have decided from the other, have written the last key of
\* their range and, after it, the first
C29_Witness ==
    /\ \A p \in Peers : wroteAfterPeer(p) /\ stores[p].sets = 1
    /\ stores[deviceID].key = 1 /\ stores[deviceID].nextKey = 2
    /\ stores[remoteDevice].key = 101 /\ stores[remoteDevice].nextKey = 102

\* process p is within the window of its last decision
inWindow(p) ==
    stores[p].changedAt # -1 /\ now - stores[p].changedAt < storageDebounce

\* C30: while less than 10 seconds have passed since the last decision of a
\* process, no value its watcher sees changes the namespace or the time of
\* the decision, whatever device-id the value carries.
C30_DecisionDebounced ==
    [][\A p \in Peers :
          inWindow(p) =>
              /\ stores'[p].namespace = stores[p].namespace
              /\ stores'[p].changedAt = stores[p].changedAt
              /\ stores'[p].from = stores[p].from]_vars

\* the lower process took namespace A from the other process; within the
\* window its watcher has handed over a value of the third process, whose
\* device-id is lower, and the namespace is still A
C30_Witness ==
    /\ stores[deviceID].namespace = storageNamespaceA
    /\ stores[deviceID].from = remoteDevice
    /\ stores[deviceID].seen = thirdDevice
    /\ inWindow(deviceID)
    /\ now > stores[deviceID].changedAt

(***************************************************************************)
(* SpecKeys: the keys one process takes from createStorageSetKey, call     *)
(* after call, while its watcher hands values of the two other processes   *)
(* to decideStorageNamespace and time passes                               *)
(***************************************************************************)
\* the process calls createStorageSetKey at most this many times
MaxKeyCalls == 3

\* the first and the last key of a namespace
firstKey(ns) == IF ns = storageNamespaceA THEN 1 ELSE 101
lastKey(ns) == IF ns = storageNamespaceA THEN 100 ELSE 200

\* the call before: the key createStorageSetKey returned and the namespace
\* it was returned in, 0 before the first call; changed tells that
\* storageNamespace has taken another value since that call
noCallYet == [lastKey |-> 0, lastNs |-> 0, changed |-> FALSE]

\* the variables of the process when it has decided at time 0 from a value
\* of device dev and has taken all keys of its range but the last
storeNearEnd(dev) ==
    LET ns == namespaceOf(deviceID, dev)
    IN  [namespace |-> ns, changedAt |-> 0, nextKey |-> lastKey(ns),
         from |-> dev, key |-> lastKey(ns) - 1, sets |-> 0, seen |-> dev,
         lastKey |-> lastKey(ns) - 1, lastNs |-> ns, changed |-> FALSE]

KeysInit ==
    /\ CodecOff /\ SocksOff /\ QueueInit /\ HistInit /\ StorageInit /\ SignalOff /\ ChanOff
    /\ now = 0 /\ reaperAt = -1 /\ reaperGo = FALSE
    /\ queueSize = sessionQueueSize /\ timeout = 0
    /\ remote = <<>> /\ peerChunks = 0
    /\ unauthorized = FALSE /\ qrImageLevel = 0
    /\ sessions = FALSE /\ sesClosed = FALSE /\ sesPeer = "nil" /\ sesOnClose = FALSE
    /\ sesWrites = <<>> /\ sesDatagrams = <<>> /\ sesHistory = <<>>
    /\ sesNumber = 0 /\ sesActivity = 0 /\ closer = "none"
    /\ socks = "none" /\ localSent = 0 /\ peerLog = <<>> /\ carrier = <<>>
    /\ posts = {} /\ planIn = zeroDatagram /\ plan = noPlan
    /\ workers = {} /\ failed = <<>> /\ returned = <<>>
    /\ \E st \in {storeAtStart @@ noCallYet, storeNearEnd(remoteDevice),
                  storeNearEnd(thirdDevice)} :
          stores = [p \in Peers |-> IF p = deviceID THEN st ELSE storeAtStart]

\* listenStorage: a changed value goes to decideStorageNamespace
KeyObserve ==
    /\ \E r \in StorageResults :
          LET st == decided(stores[deviceID], deviceID, r, now)
          IN  stores' = [stores EXCEPT ![deviceID] =
                            [st EXCEPT !.changed =
                                @ \/ st.namespace # stores[deviceID].namespace]]
    /\ UNCHANGED <<posts, planIn, plan, workers, failed, returned>>
    /\ UNCHANGED <<codecVars, socksVars, cfgVars, sesVars, queueVars, envVars, timeVars,
                   storageVars, sigVars, chanVars, histVars, lastCall>>

\* executeMethodStorage takes a key from createStorageSetKey
KeySet ==
    /\ stores[deviceID].sets < MaxKeyCalls
    /\ \E st \in createStorageSetKey(stores[deviceID]) :
          stores' = [stores EXCEPT ![deviceID] =
                        [st EXCEPT !.lastKey = st.key,
                                   !.lastNs = stores[deviceID].namespace,
                                   !.changed = FALSE]]
    /\ UNCHANGED <<posts, planIn, plan, workers, failed, returned>>
    /\ UNCHANGED <<codecVars, socksVars, cfgVars, sesVars, queueVars, envVars, timeVars,
                   storageVars, sigVars, chanVars, histVars, lastCall>>

KeysNext == KeyObserve \/ KeySet \/ Tick

SpecKeys == KeysInit /\ [][KeysNext]_vars

\* a call of createStorageSetKey in namespace A or B
keyTaken ==
    /\ stores'[deviceID].sets = stores[deviceID].sets + 1
    /\ stores[deviceID].namespace # storageNamespaceUnknown

\* the key after the one the call before returned, when that call was made
\* in namespace ns and did not return the last key of the range, and the
\* first key of the range otherwise
keyAfter(st, ns) ==
    IF st.lastNs = ns /\ st.lastKey # lastKey(ns) THEN st.lastKey + 1 ELSE firstKey(ns)

\* C31: a call of createStorageSetKey in namespace A or B returns a key of
\* the range of that namespace: the first key of the range when the call
\* before was made in another namespace or returned the last key of the
\* range, and the key after the one the call before returned otherwise,
\* also when the namespace has changed and changed back between the two
\* calls.
C31_KeysCycle ==
    [][keyTaken =>
          /\ stores'[deviceID].key \in
                 firstKey(stores[deviceID].namespace)..lastKey(stores[deviceID].namespace)
          /\ stores'[deviceID].key =
                 keyAfter(stores[deviceID], stores[deviceID].namespace)]_vars

\* C31 as stated: whenever the namespace has changed since the call before,
\* the call returns the first key of the range.
C31_FirstKeyAfterChange ==
    [][keyTaken =>
          /\ stores'[deviceID].key \in
                 firstKey(stores[deviceID].namespace)..lastKey(stores[deviceID].namespace)
          /\ stores'[deviceID].key =
                 IF stores[deviceID].changed
                 THEN firstKey(stores[deviceID].namespace)
                 ELSE keyAfter(stores[deviceID], stores[deviceID].namespace)]_vars

\* the process has taken 100 and then 1 in namespace A and, the namespace
\* having changed to B, 101
C31_Witness ==
    /\ stores[deviceID].sets = 3
    /\ stores[deviceID].namespace = storageNamespaceB
    /\ stores[deviceID].key = 101 /\ stores[deviceID].lastNs = storageNamespaceB
    /\ stores[deviceID].nextKey = 102
    /\ stores[deviceID].from = thirdDevice
    /\ stores[deviceID].changedAt > 0

(***************************************************************************)
(* SpecSignal: goroutines call signal(signalConnected),                    *)
(* waitSignal(signalConnected) and close() on one session, in any order    *)
(* and any number at a time.  s.mu is held by close() from its first line  *)
(* to its return, through s.wg.Wait(); signal holds it from its first line *)
(* to its return; waitSignal holds it for the test of s.closed only.       *)
(***************************************************************************)
\* the goroutines that use the session
SignalProcs == 1..3

\* each goroutine makes at most this many calls
MaxSignalCalls == 2

\* what a goroutine has done: op is the call it is in or has made last, pc
\* its position ("idle" outside a call, "waiting" at <-s.sigConn, "closing"
\* in close() after close(s.sigConn)), ret what the last call has returned
noSignalCall == [op |-> "none", pc |-> "idle", ret |-> "none", calls |-> 0]

\* a goroutine is in close() and holds s.mu
signalMuHeld == \E g \in SignalProcs : sigProcs[g].pc = "closing"

\* goroutine g may enter a call that starts with s.mu.Lock()
signalMayLock(g) ==
    /\ sigProcs[g].pc = "idle" /\ sigProcs[g].calls < MaxSignalCalls
    /\ ~signalMuHeld

signalReturned(g, op, ret) ==
    [sigProcs EXCEPT ![g] = [op |-> op, pc |-> "idle", ret |-> ret, calls |-> @.calls + 1]]

SignalInit ==
    /\ CodecOff /\ SocksOff /\ QueueInit /\ HistInit /\ TimeOff /\ StorageInit /\ PlanOff
    /\ ChanOff
    /\ queueSize = sessionQueueSize /\ timeout = 0
    /\ remote = <<>> /\ peerChunks = 0
    /\ sessions = TRUE /\ sesClosed = FALSE /\ sesPeer = "nil" /\ sesOnClose = FALSE
    /\ sesWrites = <<>> /\ sesDatagrams = <<>> /\ sesHistory = <<>>
    /\ sesNumber = 0 /\ sesActivity = 0 /\ closer = "none"
    /\ socks = "none" /\ localSent = 0 /\ peerLog = <<>> /\ carrier = <<>>
    /\ sigConn = 0 /\ sigConnCl = FALSE
    /\ sigProcs = [g \in SignalProcs |-> noSignalCall]

\* a signal that closes s.sigConn without looking at s.sigConnCl
signalAgain(g) ==
    IF sesClosed
    THEN /\ sigProcs' = signalReturned(g, "signal", "closed")
         /\ UNCHANGED <<sigConn, sigConnCl>>
    ELSE /\ sigConn' = sigConn + 1
         /\ sigConnCl' = TRUE
         /\ sigProcs' = signalReturned(g, "signal", "nil")

\* s.signal(signalConnected) in goroutine g, from Lock to Unlock
signal(g) ==
    IF sesClosed
    THEN /\ sigProcs' = signalReturned(g, "signal", "closed")
         /\ UNCHANGED <<sigConn, sigConnCl>>
    ELSE IF sigConnCl
    THEN /\ sigProcs' = signalReturned(g, "signal", "already done")
         /\ UNCHANGED <<sigConn, sigConnCl>>
    ELSE /\ sigConn' = sigConn + 1
         /\ sigConnCl' = TRUE
         /\ sigProcs' = signalReturned(g, "signal", "nil")

Signal(g) ==
    /\ signalMayLock(g)
    /\ signal(g)
    /\ UNCHANGED <<codecVars, socksVars, cfgVars, planVars, sesVars, queueVars, envVars,
                   timeVars, storageVars, histVars, chanVars, lastCall>>

\* s.waitSignal(signalConnected) in goroutine g up to the receive: the test
\* of s.closed under s.mu
WaitSignal(g) ==
    /\ signalMayLock(g)
    /\ sigProcs' = IF sesClosed THEN signalReturned(g, "waitSignal", "closed")
                   ELSE [sigProcs EXCEPT ![g] = [@ EXCEPT !.op = "waitSignal",
                                                          !.pc = "waiting"]]
    /\ UNCHANGED <<sigConn, sigConnCl>>
    /\ UNCHANGED <<codecVars, socksVars, cfgVars, planVars, sesVars, queueVars, envVars,
                   timeVars, storageVars, histVars, chanVars, lastCall>>

\* <-s.sigConn in goroutine g: the receive returns when the channel is closed
WaitReceive(g) ==
    /\ sigProcs[g].pc = "waiting"
    /\ sigConn >= 1
    /\ sigProcs' = signalReturned(g, "waitSignal", "nil")
    /\ UNCHANGED <<sigConn, sigConnCl>>
    /\ UNCHANGED <<codecVars, socksVars, cfgVars, planVars, sesVars, queueVars, envVars,
                   timeVars, storageVars, histVars, chanVars, lastCall>>

\* s.close() in goroutine g up to s.wg.Wait(): nothing when s.closed, else
\* s.sigConn is closed unless s.sigConnCl, and the two queues are closed
SignalClose(g) ==
    /\ signalMayLock(g)
    /\ IF sesClosed
       THEN /\ sigProcs' = signalReturned(g, "close", "nil")
            /\ UNCHANGED <<sigConn, sigConnCl>>
       ELSE /\ sigConn' = IF sigConnCl THEN sigConn ELSE sigConn + 1
            /\ sigConnCl' = TRUE
            /\ sigProcs' = [sigProcs EXCEPT ![g] = [@ EXCEPT !.op = "close",
                                                             !.pc = "closing"]]
    /\ UNCHANGED <<codecVars, socksVars, cfgVars, planVars, sesVars, queueVars, envVars,
                   timeVars, storageVars, histVars, chanVars, lastCall>>

\* s.close() in goroutine g from the return of s.wg.Wait(): the peer is
\* closed, s.closed is set, s.mu is released
SignalCloseEnd(g) ==
    /\ sigProcs[g].pc = "closing"
    /\ sesClosed' = TRUE
    /\ sigProcs' = signalReturned(g, "close", "nil")
    /\ UNCHANGED <<sigConn, sigConnCl>>
    /\ UNCHANGED <<sessions, sesPeer, sesOnClose, sesWrites, sesDatagrams, sesHistory,
                   sesNumber, sesActivity, closer>>
    /\ UNCHANGED <<codecVars, socksVars, cfgVars, planVars, queueVars, envVars,
                   timeVars, storageVars, histVars, chanVars, lastCall>>

SignalNext ==
    \E g \in SignalProcs :
        Signal(g) \/ WaitSignal(g) \/ WaitReceive(g) \/ SignalClose(g) \/ SignalCloseEnd(g)

\* a goroutine at a receive on a closed channel, and one that holds s.mu at
\* the return of s.wg.Wait() with both drainers done, takes its step
SpecSignal ==
    /\ SignalInit /\ [][SignalNext]_vars
    /\ \A g \in SignalProcs : WF_vars(WaitReceive(g)) /\ WF_vars(SignalCloseEnd(g))

\* goroutine g returns from signal in this step
signalReturns(g) ==
    sigProcs'[g].calls = sigProcs[g].calls + 1 /\ sigProcs'[g].op = "signal"

\* C32: s.sigConn is closed at most once, and has been closed once s.closed
\* is set; a signal on a closed session returns the session-closed error, a
\* signal on an open session whose channel is closed returns "already done",
\* and neither changes the session; the first signal on an open session
\* closes the channel; and every goroutine waiting at the receive returns
\* once the channel is closed.
C32_ConnectedClosedOnce ==
    /\ [](sigConn <= 1 /\ (sigConn = 1 <=> sigConnCl) /\ (sesClosed => sigConn = 1))
    /\ [][\A g \in SignalProcs :
             signalReturns(g) =>
                 /\ sigProcs'[g].ret =
                        IF sesClosed THEN "closed"
                        ELSE IF sigConn = 1 THEN "already done" ELSE "nil"
                 /\ sigProcs'[g].ret # "nil" =>
                        UNCHANGED <<sigConn, sigConnCl, sesVars>>
                 /\ sigProcs'[g].ret = "nil" => sigConn' = 1]_vars
    /\ \A g \in SignalProcs :
          (sigProcs[g].pc = "waiting" /\ sigConn >= 1) ~> (sigProcs[g].pc = "idle")

\* one goroutine has signalled, a second signal has returned "already done",
\* the session has been closed, and a goroutine that had waited has returned
\* nil and had session-closed from its second call
C32_Witness ==
    /\ sesClosed /\ sigConn = 1
    /\ sigProcs[1].op = "signal" /\ sigProcs[1].ret = "already done"
    /\ sigProcs[1].calls = 2
    /\ sigProcs[2].op = "close" /\ sigProcs[2].calls = 1
    /\ sigProcs[3].op = "waitSignal" /\ sigProcs[3].ret = "closed"
    /\ sigProcs[3].calls = 2

\* the fragments executePlan has handed to a carrier call: those with a call
\* that has not returned, those whose call has failed and those that have
\* reached a carrier
handedOver ==
    UNION {{w.fgs[j] : j \in DOMAIN w.fgs} : w \in workers}
        \cup {failed[i].fg : i \in DOMAIN failed}
        \cup DOMAIN carrier

\* C33: every fragment that has been handed to a carrier call is in the
\* history of the session under its number, as it was handed over.
C33_HandedOverInHistory ==
    \A fg \in handedOver :
        fg.number \in DOMAIN sesHistory /\ sesHistory[fg.number] = fg

\* a FORWARD was cut into two fragments; the call of the first has
\* returned, the call of the second has not, and both are in the history
C33_Witness ==
    /\ DOMAIN sesHistory = {1, 2}
    /\ sesHistory[1] \in DOMAIN carrier
    /\ \E w \in workers : w.fgs = <<sesHistory[2]>>
    /\ sesHistory[2].command = commandForward

\* listenDatagrams takes a numbered datagram from session.datagrams in this
\* step: the answer to a RETRY
resendPlanned ==
    /\ sesDatagrams # <<>> /\ Head(sesDatagrams).number # 0
    /\ sesDatagrams' = Tail(sesDatagrams)
    /\ sessions /\ workers' # workers

\* C34: an entry of the history stays as it is: no step removes it or puts
\* another fragment under its number; and when listenDatagrams plans the
\* answer to a RETRY, session.number stays as it is and the one carrier call
\* started carries the fragment as the history has it.
C34_HistoryStable ==
    [][/\ \A n \in DOMAIN sesHistory :
             n \in DOMAIN sesHistory' /\ sesHistory'[n] = sesHistory[n]
       /\ resendPlanned =>
             /\ sesNumber' = sesNumber
             /\ sesHistory' = sesHistory
             /\ \E w \in workers' \ workers :
                   /\ workers' = workers \cup {w}
                   /\ w.fgs = <<sesHistory[Head(sesDatagrams).number]>>]_vars

\* a fragment whose carrier call had failed has been resent from the history
\* and reached a carrier; the session has taken no number for it
C34_Witness ==
    /\ failed # <<>> /\ failed[1].fg \in DOMAIN carrier
    /\ carrier[failed[1].fg] = 1
    /\ sesNumber = Cardinality(DOMAIN sesHistory)
    /\ sesHistory[failed[1].fg.number] = failed[1].fg
    /\ workers = {} /\ sesDatagrams = <<>>

(***************************************************************************)
(* SpecDrain: callers hand chunks to writePeer and datagrams to            *)
(* sendDatagram, the two drainers and the carrier goroutines run, and a    *)
(* goroutine calls close(): every goroutine that can take a step           *)
(* eventually takes it.                                                    *)
(***************************************************************************)
DrainNext ==
    \/ CallWritePeer \/ PlanSend \/ CallClose \/ CloseEnd
    \/ WriteDrain \/ PlanDrain \/ CarrierCall

SpecDrain ==
    /\ PlanInit /\ [][DrainNext]_vars
    /\ WF_vars(WriteDrain) /\ WF_vars(PlanDrain) /\ WF_vars(CarrierCall)
    /\ WF_vars(CloseEnd)

\* nothing is left to do for the drainers and the carrier goroutines
allDrained == sesWrites = <<>> /\ sesDatagrams = <<>> /\ workers = {}

\* queue q is as it was or has lost its head
headTaken(q, after) == after = q \/ (q # <<>> /\ after = Tail(q))

\* C35: close() closes the peer and onClose only when both queues are empty
\* and no carrier goroutine runs; until then what the queues held when the
\* session was closed leaves them only at the head, taken by its drainer;
\* and a closed session reaches that state: every chunk and datagram
\* accepted before close() is taken by its drainer, and onClose is closed.
C35_DrainedBeforeOnClose ==
    /\ []((sesOnClose \/ sesPeer = "closed") => allDrained)
    /\ [][sesClosed =>
             /\ headTaken(sesWrites, sesWrites')
             /\ headTaken(sesDatagrams, sesDatagrams')
             /\ sesWrites' # sesWrites => sesPeer # "closed"
             /\ (sesOnClose' /\ ~sesOnClose) => allDrained]_vars
    /\ sesClosed ~> (sesOnClose /\ allDrained)

\* the session was closed with a chunk and a datagram queued; the chunk has
\* been written to the peer, the datagram has reached a carrier, and only
\* then has close() closed the peer and onClose
C35_Witness ==
    /\ sesOnClose /\ sesPeer = "closed"
    /\ lastCall.op = "close" /\ ~lastCall.wasClosed
    /\ Len(accepted) = 1 /\ peerLog = accepted
    /\ sesNumber = 1 /\ sesHistory[1] \in DOMAIN carrier
    /\ failed = <<>>

(***************************************************************************)
(* SpecChannels: goroutines call writePeer, sendDatagram and close() on    *)
(* one session, statement by statement: each takes s.mu, tests s.closed    *)
(* and then sends on its channel or closes the two channels, while the two *)
(* drainers run.  A send on a closed channel and a second close of a       *)
(* channel panic in Go; here they are counted.                             *)
(***************************************************************************)
\* the goroutines that use the session
ChanGoroutines == 1..3

\* each goroutine makes at most this many calls
MaxChanCalls == 2

ChanOps == {"writePeer", "sendDatagram", "close"}

\* a goroutine outside a call
noChanCall == [op |-> "none", pc |-> "idle", ret |-> "none", calls |-> 0]

\* goroutine g is outside a call after this step, which returned ret
chanReturned(g, ret) ==
    [chanProcs EXCEPT ![g] = [@ EXCEPT !.pc = "idle", !.ret = ret, !.calls = @ + 1]]

chanAt(g, pc) == [chanProcs EXCEPT ![g] = [@ EXCEPT !.pc = pc]]

\* the variables of the other components
chanOthers ==
    <<codecVars, socksVars, cfgVars, planVars, queueVars, envVars, timeVars, storageVars,
      histVars, sigVars, lastCall>>

ChannelsInit ==
    /\ CodecOff /\ SocksOff /\ QueueInit /\ HistInit /\ TimeOff /\ StorageInit /\ SignalOff
    /\ PlanOff
    /\ queueSize = SmallQueueSize /\ timeout = 0
    /\ remote = <<>> /\ peerChunks = 0
    /\ sessions = TRUE /\ sesClosed = FALSE /\ sesPeer = "open" /\ sesOnClose = FALSE
    /\ sesWrites = <<>> /\ sesDatagrams = <<>> /\ sesHistory = <<>>
    /\ sesNumber = 0 /\ sesActivity = 0 /\ closer = "none"
    /\ socks = "none" /\ localSent = 0 /\ peerLog = <<>> /\ carrier = <<>>
    /\ chanMu = 0 /\ chanCloses = [writes |-> 0, datagrams |-> 0] /\ chanPanics = 0
    /\ chanProcs = [g \in ChanGoroutines |-> noChanCall]

\* an s.mu.Lock() that returns whoever holds the mutex
mutexIgnored(g) == TRUE

\* s.mu.Lock() returns in goroutine g
mutexFree(g) == chanMu = 0

\* the first line of writePeer, sendDatagram (after the clone) and close():
\* s.mu.Lock()
ChanLock(g) ==
    /\ chanProcs[g].pc = "idle" /\ chanProcs[g].calls < MaxChanCalls
    /\ mutexFree(g)
    /\ chanMu' = g
    /\ \E op \in ChanOps :
          chanProcs' = [chanProcs EXCEPT ![g] = [@ EXCEPT !.op = op, !.pc = "test"]]
    /\ UNCHANGED <<chanCloses, chanPanics, sesVars, chanOthers>>

\* if s.closed: the call returns and the deferred Unlock runs; close() on
\* an open session sets s.closed
ChanTest(g) ==
    /\ chanProcs[g].pc = "test"
    /\ IF sesClosed
       THEN /\ chanProcs' = chanReturned(g, IF chanProcs[g].op = "close" THEN "nil"
                                            ELSE "closed")
            /\ chanMu' = 0
            /\ UNCHANGED sesClosed
       ELSE IF chanProcs[g].op = "close"
       THEN /\ sesClosed' = TRUE
            /\ chanProcs' = chanAt(g, "closeWrites")
            /\ UNCHANGED chanMu
       ELSE /\ chanProcs' = chanAt(g, "send")
            /\ UNCHANGED <<chanMu, sesClosed>>
    /\ UNCHANGED <<sessions, sesPeer, sesOnClose, sesWrites, sesDatagrams, sesHistory,
                   sesNumber, sesActivity, closer>>
    /\ UNCHANGED <<chanCloses, chanPanics, chanOthers>>

\* the select of writePeer and sendDatagram: the value goes to the channel
\* when it has room, a send on a closed channel panics; then the deferred
\* Unlock runs
ChanSend(g) ==
    /\ chanProcs[g].pc = "send"
    /\ IF chanProcs[g].op = "writePeer"
       THEN /\ chanPanics' = IF chanCloses.writes > 0 THEN chanPanics + 1 ELSE chanPanics
            /\ sesWrites' = IF chanCloses.writes = 0 /\ Len(sesWrites) < queueSize
                            THEN Append(sesWrites, callChunk) ELSE sesWrites
            /\ chanProcs' = chanReturned(g, IF Len(sesWrites) < queueSize THEN "nil"
                                            ELSE "full")
            /\ UNCHANGED sesDatagrams
       ELSE /\ chanPanics' = IF chanCloses.datagrams > 0 THEN chanPanics + 1
                             ELSE chanPanics
            /\ sesDatagrams' = IF chanCloses.datagrams = 0 /\ Len(sesDatagrams) < queueSize
                               THEN Append(sesDatagrams, stamped(callDatagram))
                               ELSE sesDatagrams
            /\ chanProcs' = chanReturned(g, IF Len(sesDatagrams) < queueSize THEN "nil"
                                            ELSE "full")
            /\ UNCHANGED sesWrites
    /\ chanMu' = 0
    /\ UNCHANGED <<sessions, sesClosed, sesPeer, sesOnClose, sesHistory, sesNumber,
                   sesActivity, closer>>
    /\ UNCHANGED <<chanCloses, chanOthers>>

\* close(s.writes) in close()
ChanCloseWrites(g) ==
    /\ chanProcs[g].pc = "closeWrites"
    /\ chanCloses' = [chanCloses EXCEPT !.writes = @ + 1]
    /\ chanProcs' = chanAt(g, "closeDatagrams")
    /\ UNCHANGED <<chanMu, chanPanics, sesVars, chanOthers>>

\* close(s.datagrams) and s.mu.Unlock() in close()
ChanCloseDatagrams(g) ==
    /\ chanProcs[g].pc = "closeDatagrams"
    /\ chanCloses' = [chanCloses EXCEPT !.datagrams = @ + 1]
    /\ chanProcs' = chanAt(g, "wait")
    /\ chanMu' = 0
    /\ UNCHANGED <<chanPanics, sesVars, chanOthers>>

\* close() from the return of s.wg.Wait(): under s.mu the peer is closed
\* and onClose is closed
ChanCloseEnd(g) ==
    /\ chanProcs[g].pc = "wait"
    /\ closeWaitOver
    /\ mutexFree(g)
    /\ sesPeer' = "closed" /\ sesOnClose' = TRUE
    /\ chanProcs' = chanReturned(g, "nil")
    /\ UNCHANGED <<sessions, sesClosed, sesWrites, sesDatagrams, sesHistory, sesNumber,
                   sesActivity, closer>>
    /\ UNCHANGED <<chanMu, chanCloses, chanPanics, chanOthers>>

ChannelsNext ==
    \/ \E g \in ChanGoroutines :
          \/ ChanLock(g) \/ ChanTest(g) \/ ChanSend(g)
          \/ ChanCloseWrites(g) \/ ChanCloseDatagrams(g) \/ ChanCloseEnd(g)
    \/ WriteDrain \/ SendDrain

SpecChannels == ChannelsInit /\ [][ChannelsNext]_vars

\* C36: whatever the interleaving of the goroutines, no send happens on a
\* closed channel and neither channel is closed twice; the channels are
\* closed exactly when the session is marked closed and no goroutine is
\* between the two.
C36_NoSendOnClosed ==
    /\ chanPanics = 0
    /\ chanCloses.writes <= 1 /\ chanCloses.datagrams <= 1
    /\ chanMu = 0 => (sesClosed <=> chanCloses = [writes |-> 1, datagrams |-> 1])

\* one goroutine has queued a chunk, which the drainer has written to the
\* peer; another has closed the session; the third has made two calls, the
\* last a close() of the closed session
C36_Witness ==
    /\ chanCloses = [writes |-> 1, datagrams |-> 1] /\ sesOnClose
    /\ chanProcs[1].op = "writePeer" /\ chanProcs[1].ret = "nil"
    /\ chanProcs[2].op = "close" /\ chanProcs[2].calls = 1
    /\ chanProcs[3].op = "close" /\ chanProcs[3].calls = 2
    /\ peerLog = <<callChunk>>

\* handle() calls handleCommand in this step
dispatching == lpc = "handle" /\ ready /\ (lpc' # lpc \/ qNext' # qNext)

\* the listener of the queue has left its loop or is about to
listenerStopped == lpc \in {"stop", "stopclose", "stopwait", "return", "done"}

\* C37: a handler queue hands to handleCommand only the datagram numbered
\* q.next; q.next never goes back and moves on by one when the command
\* succeeds, and when it fails the listener stops for good; so a number is
\* dispatched at most once, whatever copies arrive: the payloads handed to
\* writePeer are those of the FORWARDs numbered below q.next, each once and
\* in order, and the peer is installed by one CONNECT only.
C37_DispatchedOnce ==
    /\ [](queues => accepted = forwarded(1, qNext - 1))
    /\ [][queues =>
             /\ qNext' \in {qNext, qNext + 1}
             /\ dispatching =>
                   /\ qData[qNext].number = qNext
                   /\ qNext' = qNext + 1 \/ lpc' \in {"stop", "closewait"}
                   /\ \A n \in DOMAIN qData : n < qNext => qData'[n] = qData[n]
             /\ accepted' # accepted =>
                   /\ dispatching /\ qData[qNext].command = commandForward
                   /\ accepted' = Append(accepted, qData[qNext].payload)
                   /\ qNext' = qNext + 1
             /\ (sesPeer = "nil" /\ sesPeer' = "open") =>
                   /\ dispatching /\ qData[qNext].command = commandConnect
                   /\ qNext' = qNext + 1
             /\ listenerStopped => (lpc' = lpc \/ lpc' \in {"stopclose", "stopwait", "return", "done"})
      ]_vars

\* the CONNECT has arrived twice and then the first FORWARD; the peer was
\* dialled for the first copy, the chunk was handed to the peer once, and
\* the second copy lies in q.data under a number below q.next
C37_Witness ==
    /\ arrivals = <<1, 2, 1>>
    /\ remote[1].command = commandConnect
    /\ qNext = 3 /\ qTemp = <<>> /\ lpc = "select" /\ qSignal = 0
    /\ accepted = <<chunk(2)>>
    /\ sesPeer = "open"

(***************************************************************************)
(* SpecQueueEnd: the tunnel of SpecTunnel on the entry side when the       *)
(* second datagram of the remote side is a CLOSE: the session is closed by *)
(* that CLOSE, by the SOCKS goroutine or by the queue itself.  Every       *)
(* goroutine of the session and of the queue takes the steps it can take;  *)
(* nothing is asked of the carriers and of the retry timer.                *)
(***************************************************************************)
QueueEndInit ==
    /\ CodecOff /\ SocksOff /\ QueueInit /\ HistInit /\ TimeOff /\ StorageInit /\ SignalOff
    /\ ChanOff /\ PlanOff
    /\ queueSize = sessionQueueSize
    /\ timeout = 0
    /\ remote = remoteStream("closing")
    /\ peerChunks = 0
    /\ SessionInit("closing")

QueueEndFair ==
    /\ WF_vars(OnSignal) /\ WF_vars(Merge) /\ WF_vars(Dispatch) /\ WF_vars(HandleReturn)
    /\ WF_vars(OnClose) /\ WF_vars(StopSend) /\ WF_vars(StopClose) /\ WF_vars(CloseEnd)
    /\ WF_vars(QueueClose) /\ WF_vars(WriteDrain) /\ WF_vars(SendDrain)

\* the SOCKS goroutine reads nothing from its peer
QueueEndNext ==
    \/ Arrive \/ OnSignal \/ Merge \/ Dispatch \/ HandleReturn
    \/ OnTimer \/ OnClose \/ StopSend \/ StopClose \/ CloseEnd \/ QueueClose
    \/ SocksEnd \/ WriteDrain \/ SendDrain

SpecQueueEnd == QueueEndInit /\ [][QueueEndNext]_vars /\ QueueEndFair

\* C38: a queue that is marked closed belongs to a session that is marked
\* closed; a queue whose session is closed is eventually marked closed by its
\* goroutine; and a queue marked closed stays closed and empty: add() stages
\* nothing and leaves no token in q.signal.
C38_QueueClosedWithSession ==
    /\ []((queues /\ qClosed) => sesClosed)
    /\ (queues /\ sesClosed) ~> qClosed
    /\ [][(queues /\ qClosed) =>
             /\ qClosed'
             /\ UNCHANGED <<qTemp, qData, qSignal, qNext>>
             /\ qData = <<>> /\ \A i \in DOMAIN qTemp : qTemp[i] = zeroDatagram]_vars

\* the CLOSE of the remote side has closed the session, the goroutine of the
\* queue has found onClose closed and closed the queue, and a datagram that
\* arrived afterwards was not staged
C38_Witness ==
    /\ queues /\ qClosed /\ sesClosed /\ sesOnClose /\ lpc = "done"
    /\ remote[2].command = commandClose
    /\ Len(arrivals) = 3 /\ arrivals[3] = 3
    /\ qNext = 3 /\ qTemp = <<>>

\* a goroutine of listenLongPoll runs handleDatagram in this step
arriving == arrivals' # arrivals

\* the datagram that goroutine handles
arrived == remote[arrivals'[Len(arrivals')]]

\* handleDatagram has staged its datagram in the queue of the session, the
\* one it found or the one it has just opened
stagedInQueue ==
    /\ sessions' /\ queues' /\ ~qClosed'
    /\ qTemp' = (IF queues THEN qTemp ELSE <<>>) \o <<arrived>>
    /\ qSignal' = 1

\* handleDatagram has left the session and the queue it found as they were,
\* but for q.temp and q.signal
foundKept ==
    /\ sessions => UNCHANGED sesVars
    /\ queues => UNCHANGED <<qClosed, qData, qNext, qPending, qRetries, lpc>>

exitSide == remote[1].command = commandConnect

guardLen == 1000 * methodsMaxLenPayload(methodDoc) + 1

\* the datagrams in session.datagrams
GuardInputs ==
    CreatePlanInputs
        \cup {newDatagram(deviceID, sessionID, 0, commandForward, sliceOf(PlanOffset, guardLen))}

\* the loop of createPlan is running
inLoop == plan.err = "running"

\* createPlan returns nil, nil and an error
planError(err) == [methods |-> <<>>, fragments |-> <<>>, err |-> err]

\* session.number at the call of the createPlan whose loop is running
numberAtCall == sesNumber - Len(plan.fragments)

GuardInit ==
    /\ CreatePlanInit
    /\ ~unauthorized /\ qrImageLevel = 0

\* listenDatagrams takes a datagram and calls createPlan, lines 670 to 757:
\* a datagram for a small method and a numbered one are planned without the
\* loop and recorded, another one enters the loop
PlanEnter ==
    /\ ~inLoop /\ sesNumber < MaxNumbered
    /\ \E dg \in GuardInputs :
          IF fitsSmall(dg) \/ dg.number # 0
          THEN \E p \in createPlan(dg) :
                  /\ planIn' = dg
                  /\ plan' = [methods |-> p.methods, fragments |-> p.fragments,
                              err |-> p.err]
                  /\ sesNumber' = p.number
                  /\ sesHistory' = IF p.err = "nil" THEN recorded(sesHistory, p.fragments)
                                   ELSE sesHistory
          ELSE /\ planIn' = dg
               /\ plan' = [methods |-> <<>>, fragments |-> <<>>, err |-> "running"]
               /\ UNCHANGED <<sesNumber, sesHistory>>
    /\ UNCHANGED <<sessions, sesClosed, sesPeer, sesOnClose, sesWrites, sesDatagrams,
                   sesActivity, closer>>
    /\ UNCHANGED <<posts, workers, failed, returned, stores>>
    /\ UNCHANGED <<codecVars, socksVars, cfgVars, queueVars, envVars, timeVars,
                   storageVars, sigVars, chanVars, histVars, lastCall>>

\* one turn of the loop of createPlan, lines 759 to 785: the payload is cut
\* in two chunks, nextNumber is called, the first chunk becomes a fragment;
\* on an error createPlan returns and listenDatagrams drops the datagram
PlanTurn ==
    /\ inLoop /\ planIn.payload.len > 0
    /\ \E method \in elems(bigMethods) :
          LET chunks == sliceToChunks(planIn.payload, methodsMaxLenPayload(method), 2)
              num == sesNumber + 1
              fg == newDatagram(deviceID, planIn.session, num, planIn.command, chunks[1])
          IN  IF Len(chunks) = 0 \/ Len(chunks) > 2
              THEN /\ plan' = planError("unexpected chunks logic")
                   /\ UNCHANGED <<planIn, sesNumber>>
              ELSE /\ planIn' = [planIn EXCEPT !.payload =
                                    IF Len(chunks) = 2 THEN chunks[2] ELSE sliceOf(0, 0)]
                   /\ sesNumber' = num
                   /\ plan' = IF LenEncoded(fg) > methodsMaxLenEncoded(method)
                              THEN planError("unexpected payload logic")
                              ELSE IF Len(plan.methods) + 1 > 1000
                              THEN planError("infinite loop protection")
                              ELSE [methods |-> Append(plan.methods, method),
                                    fragments |-> Append(plan.fragments, fg),
                                    err |-> "running"]
    /\ UNCHANGED <<sessions, sesClosed, sesPeer, sesOnClose, sesWrites, sesDatagrams,
                   sesHistory, sesActivity, closer>>
    /\ UNCHANGED <<posts, workers, failed, returned, stores>>
    /\ UNCHANGED <<codecVars, socksVars, cfgVars, queueVars, envVars, timeVars,
                   storageVars, sigVars, chanVars, histVars, lastCall>>

\* the loop ends, createPlan returns the plan (line 788) and listenDatagrams
\* records the fragments in the history (lines 680 to 686)
PlanReturn ==
    /\ inLoop /\ planIn.payload.len = 0
    /\ plan' = [plan EXCEPT !.err = "nil"]
    /\ sesHistory' = recorded(sesHistory, plan.fragments)
    /\ UNCHANGED <<sessions, sesClosed, sesPeer, sesOnClose, sesWrites, sesDatagrams,
                   sesNumber, sesActivity, closer>>
    /\ UNCHANGED <<planIn, posts, workers, failed, returned, stores>>
    /\ UNCHANGED <<codecVars, socksVars, cfgVars, queueVars, envVars, timeVars,
                   storageVars, sigVars, chanVars, histVars, lastCall>>

PlanGuardNext == PlanEnter \/ PlanTurn \/ PlanReturn

SpecPlanGuard == GuardInit /\ [][PlanGuardNext]_vars

\* every number nextNumber has returned is the number of a fragment in the
\* history
numbersRecorded == \A n \in 1..sesNumber : n \in DOMAIN sesHistory

\* the last createPlan has returned an error
planFailed == planned /\ plan.err \notin {"nil", "running"}

\* C40: a createPlan that returns an error leaves session.number as it was
\* before the call, and, no createPlan running, every number the session has
\* allocated is the number of a fragment recorded in the history.
C40_FailedPlanKeepsNumber ==
    /\ [][(inLoop /\ plan'.err \notin {"nil", "running"})
             => sesNumber' = numberAtCall]_vars
    /\ [](~inLoop => numbersRecorded)

\* the same for the runs in which no createPlan has returned an error; while
\* the loop runs the numbers taken since the call are those of the fragments
\* made so far
recordedUnlessFailed ==
    /\ (~inLoop /\ ~planFailed) => numbersRecorded
    /\ inLoop =>
          /\ \A n \in 1..numberAtCall : n \in DOMAIN sesHistory
          /\ \A i \in DOMAIN plan.fragments : plan.fragments[i].number = numberAtCall + i

\* createPlan has stopped at the 1000-iteration guard: 1001 numbers are taken
\* and the history is empty
guardHit ==
    /\ planFailed /\ plan.err = "infinite loop protection"
    /\ sesNumber = 1001 /\ sesHistory = <<>>
(***************************************************************************)
(* Properties                                                              *)
(***************************************************************************)
\* two datagrams agree in every field the caller sets (the checksum is
\* written by the encoder)
sameDatagram(a, b) ==
    /\ a.version = b.version
    /\ a.device = b.device
    /\ a.session = b.session
    /\ a.number = b.number
    /\ a.command = b.command
    /\ a.payload = b.payload

\* C10: for every datagram d and both alphabets, decodeDatagram(encodeDatagram(d, a))
\* succeeds and returns a datagram equal to d.
C10_RoundTrip ==
    cpc = "decoded" => (decoded.err = "nil" /\ sameDatagram(decoded.dg, dgIn))

====
